---- MODULE Spec2Model ----
(***************************************************************************)
(* Sprint burndown resolvers of forge-sprint-gadgets                       *)
(* (src/src/resolvers/index.js, second definition set, lines 1155-2440,    *)
(* plus the resetBaseline endpoint of the first definition set).           *)
(*                                                                         *)
(* Conventions                                                             *)
(*   - hours are kept in tenths of an hour (secondsToHours rounds to one   *)
(*     decimal, so every hour value of the program is n/10);               *)
(*   - a date is a day number; day d falls on weekday d % 7 with           *)
(*     0 = Sunday, as Date.getDay(); the sprint's start and end carry a    *)
(*     time of day as well, today and the dates of issues are midnights;   *)
(*   - a name (status name, issue-type name) is a tuple of characters so   *)
(*     that toLowerCase() and includes() are computed, not assumed.        *)
(***************************************************************************)
EXTENDS Integers, Sequences, FiniteSets, TLC

(***************************************************************************)
(* Bounds of the model                                                     *)
(***************************************************************************)
MaxIssues == 3
MaxAggIssues == 3
MaxSeriesIssues == 2
MaxSpan == 8
MaxHist == 2
MaxWorklogs == 1
MaxLookups == 6
MaxEntries == 5

(***************************************************************************)
(* Program constants                                                       *)
(***************************************************************************)
WORKING_DAYS_DEFAULT == 10
HOURS_PER_DAY == 8

NoKey == 0
NoBaseline == [none |-> TRUE]
\* no value under the key config-<gadgetId>
NoConfig == [none |-> TRUE]
\* no lookup and no pagination loop is running
NoLookups == [pc |-> "idle"]
NoPaging == [pc |-> "idle"]
Null == -1000000

(***************************************************************************)
(* Names as character tuples                                               *)
(***************************************************************************)
LowerOf ==
  [ A |-> "a", B |-> "b", C |-> "c", D |-> "d", E |-> "e", F |-> "f",
    G |-> "g", H |-> "h", I |-> "i", J |-> "j", K |-> "k", L |-> "l",
    M |-> "m", N |-> "n", O |-> "o", P |-> "p", Q |-> "q", R |-> "r",
    S |-> "s", T |-> "t", U |-> "u", V |-> "v", W |-> "w", X |-> "x",
    Y |-> "y", Z |-> "z" ]

toLowerChar(c) == IF c \in DOMAIN LowerOf THEN LowerOf[c] ELSE c

toLowerCase(s) == [i \in 1..Len(s) |-> toLowerChar(s[i])]

includes(s, sub) ==
  \E i \in 0..(Len(s) - Len(sub)) :
    \A j \in 1..Len(sub) : s[i + j] = sub[j]

StToDo == <<"T","o"," ","D","o">>
StDone == <<"D","o","n","e">>
StResolved == <<"R","E","S","O","L","V","E","D">>

\* the workflow of an issue: odd keys close as "Done", even keys as "RESOLVED"
StatusChoices(k) == {StToDo, IF k % 2 = 1 THEN StDone ELSE StResolved}

doneStatuses ==
  { <<"d","o","n","e">>, <<"c","l","o","s","e","d">>,
    <<"r","e","s","o","l","v","e","d">>, <<"c","o","m","p","l","e","t","e">> }

TypeTask == [name |-> <<"T","a","s","k">>, subtask |-> FALSE]
TypeSubtask == [name |-> <<"S","u","b","-","t","a","s","k">>, subtask |-> TRUE]
TypeMainTask == [name |-> <<"M","a","i","n"," ","T","a","s","k">>, subtask |-> FALSE]
IssueTypes == {TypeTask, TypeSubtask, TypeMainTask}

Assignees == {"An", "Binh"}

PrMedium == "Medium"
PrHigh == "High"
Priorities == {PrMedium, PrHigh}

(***************************************************************************)
(* Helper functions                                                        *)
(***************************************************************************)
\* variant: Saturday taken for a working day
isWorkingDay_sundayOnly(date) == (date % 7) # 0

isWorkingDay(date) == (date % 7) # 0 /\ (date % 7) # 6

\* a Date of the sprint is a day and a time of day; current <= end
notAfter(current, end) ==
  \/ current.day < end.day
  \/ current.day = end.day /\ current.time <= end.time

RECURSIVE countFrom(_, _)
countFrom(current, end) ==
  IF ~notAfter(current, end) THEN 0
  ELSE (IF isWorkingDay(current.day) THEN 1 ELSE 0)
       + countFrom([current EXCEPT !.day = @ + 1], end)

countWorkingDays(startDate, endDate) ==
  LET count == countFrom(startDate, endDate)
  IN IF count = 0 THEN WORKING_DAYS_DEFAULT ELSE count

\* Math.round((seconds / 3600) * 10) / 10, in tenths of an hour
secondsToHours(seconds) ==
  IF seconds = 0 THEN 0 ELSE (seconds * 10 + 1800) \div 3600

RECURSIVE SumSeq(_)
SumSeq(s) == IF s = <<>> THEN 0 ELSE Head(s) + SumSeq(Tail(s))

RECURSIVE SelectSeqBy(_, _)
SelectSeqBy(s, keep) ==
  IF s = <<>> THEN <<>>
  ELSE (IF Head(s).key \in keep THEN <<Head(s)>> ELSE <<>>)
       \o SelectSeqBy(Tail(s), keep)

KeysOf(s) == {s[i].key : i \in DOMAIN s}

\* the sum of f over the set S
RECURSIVE SumOver(_, _)
SumOver(f, S) ==
  IF S = {} THEN 0
  ELSE LET x == CHOOSE y \in S : TRUE IN f[x] + SumOver(f, S \ {x})

isDoneStatus(statusName) ==
  LET status == toLowerCase(statusName)
  IN \E s \in doneStatuses : includes(status, s)

(***************************************************************************)
(* State                                                                   *)
(*   jira       every issue of the tracker: its fields as the search API   *)
(*              returns them                                               *)
(*   members    keys of the issues currently in the sprint                 *)
(*   changelogs Sprint-field history entries per issue                     *)
(*   worklogs   worklog entries of the tracker                             *)
(*   sprint     the active sprint                                          *)
(*   today      the current date                                           *)
(*   storage    value under the key baseline-<sprintId>                    *)
(*   config     value under the key config-<gadgetId>                      *)
(*   response   what the last resolver invocation returned                 *)
(*   call       what the last resolver invocation did to the store         *)
(*   requests   the getBurndownData invocations that run concurrently:     *)
(*              where each one is and what it holds                        *)
(*   lookups    the batched changelog and worklog lookups of one           *)
(*              invocation: the calls in flight and what was collected     *)
(*   paging     one pagination loop over the tracker: what it collected    *)
(*              and what the tracker still has to answer                   *)
(***************************************************************************)
VARIABLES jira, members, changelogs, worklogs, sprint, today, storage,
          config, response, call, requests, lookups, paging

vars == <<jira, members, changelogs, worklogs, sprint, today, storage,
          config, response, call, requests, lookups, paging>>

\* the keys of the tracker's issues
Keys == DOMAIN jira

(***************************************************************************)
(* Issue source                                                            *)
(***************************************************************************)
\* fields.subtasks of an issue: the tracker lists every subtask of the
\* issue, whether or not it is in the sprint
subtasksField(k) ==
  Cardinality({j \in Keys : jira[j].parent = k}) + jira[k].extraSubtasks

issueOf(k) ==
  [ key |-> k,
    status |-> jira[k].status,
    assignee |-> jira[k].assignee,
    issuetype |-> jira[k].issuetype,
    parent |-> jira[k].parent,
    subtasks |-> subtasksField(k),
    timeoriginalestimate |-> jira[k].timeoriginalestimate,
    timeestimate |-> jira[k].timeestimate,
    timespent |-> jira[k].timespent,
    priority |-> jira[k].priority,
    duedate |-> jira[k].duedate,
    created |-> jira[k].created ]

RECURSIVE issuesFrom(_, _)
issuesFrom(k, keep) ==
  IF k \notin Keys THEN <<>>
  ELSE (IF k \in keep THEN <<issueOf(k)>> ELSE <<>>) \o issuesFrom(k + 1, keep)

\* the issues of the sprint, all pages concatenated
getSprintIssues == issuesFrom(1, members)

(***************************************************************************)
(* Subtask logic                                                           *)
(***************************************************************************)
isParentWithSubtasks(issue) ==
  \/ issue.subtasks > 0
  \/ includes(toLowerCase(issue.issuetype.name),
              <<"m","a","i","n"," ","t","a","s","k">>)

isSubtaskIssue(issue) ==
  \/ issue.issuetype.subtask = TRUE
  \/ includes(toLowerCase(issue.issuetype.name),
              <<"s","u","b","-","t","a","s","k">>)
  \/ includes(toLowerCase(issue.issuetype.name),
              <<"s","u","b","t","a","s","k">>)

\* subtasksByParent is a function on every key: a key the program has no
\* entry for maps to the empty list
buildSubtaskMap(issues) ==
  LET isSub(i) == isSubtaskIssue(issues[i]) /\ issues[i].parent # NoKey
      subIdx == {i \in DOMAIN issues : isSub(i)}
  IN [ subtasksByParent |->
         [p \in Keys |->
            SelectSeqBy(issues, {issues[i].key : i \in
                          {j \in subIdx : issues[j].parent = p}})],
       subtaskKeys |-> {issues[i].key : i \in subIdx},
       parentKeys |-> {issues[i].parent : i \in subIdx}
                      \cup {issues[i].key : i \in
                             {j \in DOMAIN issues : isParentWithSubtasks(issues[j])}} ]

\* variant: a parent with subtasks in the list counted by its own field
effectiveOf_ownField(issue, map, field) ==
  IF issue.key \in map.subtaskKeys THEN 0
  ELSE secondsToHours(issue[field])

\* variant: a parent with no subtask in the list counted by its own field
effectiveOf_countSkipped(issue, map, field) ==
  IF issue.key \in map.subtaskKeys THEN 0
  ELSE LET subs == map.subtasksByParent[issue.key]
       IN IF issue.key \in map.parentKeys /\ Len(subs) > 0
            THEN SumSeq([i \in DOMAIN subs |-> secondsToHours(subs[i][field])])
            ELSE secondsToHours(issue[field])

\* the value one issue of the list adds to the total in the forEach loop
effectiveOf(issue, map, field) ==
  IF issue.key \in map.subtaskKeys THEN 0
  ELSE IF issue.key \in map.parentKeys
    THEN LET subs == map.subtasksByParent[issue.key]
         IN IF Len(subs) > 0
              THEN SumSeq([i \in DOMAIN subs |-> secondsToHours(subs[i][field])])
              ELSE 0
    ELSE secondsToHours(issue[field])

\* variant: a subtask whose parent is not in the list counted by its own
\* field
computeEffective_orphans(issues, field) ==
  LET map == buildSubtaskMap(issues)
      own(i) == IF /\ issues[i].key \in map.subtaskKeys
                   /\ issues[i].parent \notin KeysOf(issues)
                  THEN secondsToHours(issues[i][field]) ELSE 0
  IN SumSeq([i \in DOMAIN issues |-> effectiveOf(issues[i], map, field) + own(i)])

computeEffective(issues, field) ==
  LET map == buildSubtaskMap(issues)
  IN SumSeq([i \in DOMAIN issues |-> effectiveOf(issues[i], map, field)])

computeEffectiveRemaining(issues) == computeEffective(issues, "timeestimate")

computeEffectiveOriginalEstimate(issues) ==
  computeEffective(issues, "timeoriginalestimate")

computeEffectiveSpent(issues) == computeEffective(issues, "timespent")

(***************************************************************************)
(* Status ordering used by the issue table                                 *)
(***************************************************************************)
STATUS_ORDER ==
  << [key |-> <<"i","n"," ","p","r","o","g","r","e","s","s">>, order |-> 1],
     [key |-> <<"i","n"," ","p","r","o","g","r","e","s","s"," ","-"," ",
               "m","a","i","n"," ","t","a","s","k">>, order |-> 1],
     [key |-> <<"t","o"," ","d","o">>, order |-> 2],
     [key |-> <<"o","p","e","n">>, order |-> 2],
     [key |-> <<"b","a","c","k","l","o","g">>, order |-> 2],
     [key |-> <<"h","o","l","d">>, order |-> 2],
     [key |-> <<"d","o","n","e">>, order |-> 3],
     [key |-> <<"c","l","o","s","e","d">>, order |-> 3],
     [key |-> <<"r","e","s","o","l","v","e","d">>, order |-> 3],
     [key |-> <<"c","o","m","p","l","e","t","e">>, order |-> 3] >>

getStatusOrder(statusName) ==
  LET lower == toLowerCase(statusName)
      hits == {i \in DOMAIN STATUS_ORDER : includes(lower, STATUS_ORDER[i].key)}
  IN IF hits = {} THEN 2
     ELSE STATUS_ORDER[CHOOSE i \in hits : \A j \in hits : i <= j].order

\* Array.prototype.sort with the comparator orderA - orderB (stable)
RECURSIVE insertByStatus(_, _)
insertByStatus(sorted, item) ==
  IF sorted = <<>> THEN <<item>>
  ELSE IF getStatusOrder(Head(sorted).status) <= getStatusOrder(item.status)
    THEN <<Head(sorted)>> \o insertByStatus(Tail(sorted), item)
    ELSE <<item>> \o sorted

RECURSIVE sortByStatus(_)
sortByStatus(items) ==
  IF items = <<>> THEN <<>>
  ELSE insertByStatus(sortByStatus(SubSeq(items, 1, Len(items) - 1)),
                      items[Len(items)])

(***************************************************************************)
(* Changelog and worklog source                                            *)
(***************************************************************************)
\* the history requests of a handler: the changelog of an issue, the
\* worklogs of an issue, the lookup of the issues removed from the sprint;
\* historyUp is the set of those that answer a success status
HistoryKinds == {"changelog", "worklog", "removed"}

\* a history entry is [created, from, to]: from (to) says whether the
\* Sprint item's fromString/from (toString/to) names this sprint
RECURSIVE insertByCreated(_, _)
insertByCreated(sorted, h) ==
  IF sorted = <<>> THEN <<h>>
  ELSE IF Head(sorted).created <= h.created
    THEN <<Head(sorted)>> \o insertByCreated(Tail(sorted), h)
    ELSE <<h>> \o sorted

RECURSIVE sortByCreated(_)
sortByCreated(histories) ==
  IF histories = <<>> THEN <<>>
  ELSE insertByCreated(sortByCreated(SubSeq(histories, 1, Len(histories) - 1)),
                       histories[Len(histories)])

RECURSIVE scanChangelog(_, _)
scanChangelog(sorted, acc) ==
  IF sorted = <<>> THEN acc
  ELSE LET h == Head(sorted)
           a1 == IF ~h.from /\ h.to
                   THEN [acc EXCEPT !.addedDate = h.created] ELSE acc
           a2 == IF h.from /\ ~h.to
                   THEN [removedDate |-> h.created, addedDate |-> Null] ELSE a1
       IN scanChangelog(Tail(sorted), a2)

\* variant: the histories are scanned in the order they were given
analyzeSprintChangelog_asGiven(histories) ==
  scanChangelog(histories, [addedDate |-> Null, removedDate |-> Null])

analyzeSprintChangelog(histories) ==
  scanChangelog(sortByCreated(histories),
                [addedDate |-> Null, removedDate |-> Null])

\* the histories the changelog endpoint answers for one issue; a failed
\* request answers the empty list
getIssueChangelog(k, historyUp) ==
  IF "changelog" \in historyUp THEN changelogs[k] ELSE <<>>

\* results[key] for the issues of the list, [] for every other key
getAllChangelogs(keys, historyUp) ==
  [k \in Keys |-> IF k \in keys THEN getIssueChangelog(k, historyUp) ELSE <<>>]

RECURSIVE worklogsOf(_, _)
worklogsOf(wls, keys) ==
  IF wls = <<>> THEN <<>>
  ELSE (IF Head(wls).key \in keys THEN <<Head(wls)>> ELSE <<>>)
       \o worklogsOf(Tail(wls), keys)

getAllWorklogs(keys, historyUp) ==
  IF "worklog" \in historyUp THEN worklogsOf(worklogs, keys) ELSE <<>>

\* issues that were in the sprint and are no longer in it; every lookup
\* method failing answers the empty list
getRemovedFromSprintIssues(historyUp) ==
  IF "removed" \in historyUp
    THEN issuesFrom(1, {k \in Keys \ members :
                          \E i \in DOMAIN changelogs[k] : changelogs[k][i].from})
    ELSE <<>>

(***************************************************************************)
(* Baseline storage                                                        *)
(***************************************************************************)
baselineEntry(i) ==
  [ key |-> i.key,
    originalEstimate |-> secondsToHours(i.timeoriginalestimate),
    remainingEstimate |-> secondsToHours(i.timeestimate),
    timeSpent |-> secondsToHours(i.timespent),
    assignee |-> i.assignee,
    status |-> i.status,
    issueType |-> i.issuetype.name,
    isSubtask |-> isSubtaskIssue(i),
    parentKey |-> i.parent ]

\* variant: the snapshot taken without the Done filter
newBaseline_all(issues) ==
  [ none |-> FALSE,
    createdAt |-> today,
    issueCount |-> Len(issues),
    issues |-> [n \in DOMAIN issues |-> baselineEntry(issues[n])] ]

\* the value saveSprintBaseline builds and writes
newBaseline(issues) ==
  LET activeKeys == {issues[n].key : n \in
                       {m \in DOMAIN issues : ~isDoneStatus(issues[m].status)}}
      activeIssues == SelectSeqBy(issues, activeKeys)
  IN [ none |-> FALSE,
       createdAt |-> today,
       issueCount |-> Len(activeIssues),
       issues |-> [n \in DOMAIN activeIssues |-> baselineEntry(activeIssues[n])] ]

\* getSprintBaseline: a failed read answers null
getSprintBaseline(getOk) == IF getOk THEN storage ELSE NoBaseline

CorruptionFloor == 10

\* variant: either test alone taken for corruption
isCorrupted_either(baselineLength, currentActiveCount) ==
  \/ baselineLength * 10 < currentActiveCount * 3
  \/ baselineLength < CorruptionFloor

isCorrupted(baselineLength, currentActiveCount) ==
  /\ baselineLength * 10 < currentActiveCount * 3
  /\ baselineLength < CorruptionFloor

(***************************************************************************)
(* getBurndownData: the computation after the baseline is settled          *)
(***************************************************************************)
TeamSizes == {0, 2}
Unassigned == ""
Filters == {"All"} \cup Assignees

RoundDiv(n, d) == (2 * n + d) \div (2 * d)

\* maxCapacity / workingDays, kept as a fraction
dailyDecrease(maxCapacity, workingDays) ==
  [num |-> maxCapacity, den |-> workingDays]

\* Math.max(0, maxCapacity - dailyDecrease * workingDayCount), rounded to
\* tenths
idealOf(maxCapacity, workingDays, workingDayCount) ==
  LET dd == dailyDecrease(maxCapacity, workingDays)
      num == maxCapacity * dd.den - dd.num * workingDayCount
  IN IF num <= 0 THEN 0 ELSE RoundDiv(num, dd.den)

\* variant: today itself taken for a future day
isPastOrToday_strict(currentDate) == currentDate < today

isPastOrToday(currentDate) == currentDate <= today

\* variant: the day's removed scope left in
runningRemainingAfter_keepRemoved(runningRemaining0, dayLogged, added, removed) ==
  runningRemaining0 - dayLogged + added

\* runningRemaining after a day that is past or today
runningRemainingAfter(runningRemaining0, dayLogged, added, removed) ==
  runningRemaining0 - dayLogged + added - removed

\* issueAddedDate of one current issue, Null when there is none
issueAddedDate(issue, allChangelogs) ==
  LET addedDate == analyzeSprintChangelog(allChangelogs[issue.key]).addedDate
  IN IF addedDate # Null
       THEN (IF addedDate > sprint.startDate THEN addedDate ELSE Null)
       ELSE (IF issue.created > sprint.startDate THEN issue.created ELSE Null)

\* variant: today is taken as it is, also after the sprint's end
removeDate_noClamp(issue, removedChangelogs) ==
  LET removedDate == analyzeSprintChangelog(removedChangelogs[issue.key]).removedDate
  IN IF removedDate # Null THEN removedDate ELSE today

\* removeDateStr of one removed issue
removeDate(issue, removedChangelogs) ==
  LET removedDate == analyzeSprintChangelog(removedChangelogs[issue.key]).removedDate
  IN IF removedDate # Null THEN removedDate
     ELSE IF today <= sprint.endDate THEN today ELSE sprint.endDate

\* one entry of issueDetails
issueDetail(i, map) ==
  LET hasSubtasks == i.key \in map.parentKeys
      subs == map.subtasksByParent[i.key]
      hasSubtasksInList == Len(subs) > 0
      own(field) == secondsToHours(i[field])
      sum(field) == SumSeq([n \in DOMAIN subs |-> secondsToHours(subs[n][field])])
      eff(field) == IF hasSubtasks /\ hasSubtasksInList THEN sum(field) ELSE own(field)
  IN [ key |-> i.key,
       status |-> i.status,
       originalEstimate |-> eff("timeoriginalestimate"),
       remainingEstimate |-> eff("timeestimate"),
       timeSpent |-> eff("timespent"),
       isSubtask |-> isSubtaskIssue(i) \/ i.key \in map.subtaskKeys,
       hasSubtasks |-> hasSubtasks,
       skippedInTotal |-> hasSubtasks /\ ~hasSubtasksInList ]

\* new Date(sprint.startDate), new Date(sprint.endDate)
startOf(sp) == [day |-> sp.startDate, time |-> sp.startTime]

endOf(sp) == [day |-> sp.endDate, time |-> sp.endTime]

\* the data points of the days current..endDate
RECURSIVE pointsFrom(_, _, _, _, _)
pointsFrom(current, workingDayCount0, runningRemaining0, cumulativeLogged0, c) ==
  IF ~notAfter([day |-> current, time |-> sprint.startTime], endOf(sprint)) THEN <<>>
  ELSE
    LET workingDayCount ==
          IF isWorkingDay(current) /\ current > sprint.startDate
            THEN workingDayCount0 + 1 ELSE workingDayCount0
        ideal == idealOf(c.maxCapacity, c.workingDays, workingDayCount)
        past == isPastOrToday(current)
        added == c.added[current]
        removed == c.removed[current]
        dayLogged == c.logged[current]
        cumulativeLogged ==
          IF past THEN cumulativeLogged0 + dayLogged ELSE cumulativeLogged0
        runningRemaining ==
          IF past
            THEN runningRemainingAfter(runningRemaining0, dayLogged, added, removed)
            ELSE runningRemaining0
    IN << [ date |-> current,
            ideal |-> ideal,
            remaining |-> IF past THEN runningRemaining - added ELSE Null,
            totalRemaining |-> IF past THEN runningRemaining ELSE Null,
            timeLogged |-> IF past THEN cumulativeLogged ELSE Null,
            dayLogged |-> IF past THEN dayLogged ELSE Null,
            cumulativeLogged |-> IF past THEN cumulativeLogged ELSE Null,
            added |-> IF added > 0 THEN added ELSE 0,
            removed |-> IF removed > 0 THEN -removed ELSE 0 ] >>
       \o pointsFrom(current + 1, workingDayCount, runningRemaining,
                     cumulativeLogged, c)

\* the days the loop while (current <= endDate) visits
SprintDays ==
  {d \in sprint.startDate..sprint.endDate :
     notAfter([day |-> d, time |-> sprint.startTime], endOf(sprint))}

burndownData(allIssues, baseline, assignee, configTeamSize, historyUp) ==
  LET allAssignees == {allIssues[n].assignee : n \in DOMAIN allIssues} \ {Unassigned}
      filtered == assignee # "All"
      issues ==
        IF filtered
          THEN SelectSeqBy(allIssues, {allIssues[n].key : n \in
                 {m \in DOMAIN allIssues : allIssues[m].assignee = assignee}})
          ELSE allIssues
      teamSize ==
        IF filtered THEN 1
        ELSE IF configTeamSize # 0 THEN configTeamSize
        ELSE IF Cardinality(allAssignees) # 0 THEN Cardinality(allAssignees)
        ELSE 1
      filteredIssues ==
        IF filtered
          THEN SelectSeqBy(baseline.issues, {baseline.issues[n].key : n \in
                 {m \in DOMAIN baseline.issues : baseline.issues[m].assignee = assignee}})
          ELSE baseline.issues
      workingDays == countWorkingDays(startOf(sprint), endOf(sprint))
      maxCapacity == workingDays * HOURS_PER_DAY * teamSize * 10
      baselineSum == SumSeq([n \in DOMAIN filteredIssues |->
                               filteredIssues[n].originalEstimate])
      totalOriginalEstimate ==
        IF baselineSum # 0 THEN baselineSum
        ELSE computeEffectiveOriginalEstimate(issues)
      currentRemaining == computeEffectiveRemaining(issues)
      totalSpent == computeEffectiveSpent(issues)
      issuesNeedingChangelog ==
        {issues[n].key : n \in {m \in DOMAIN issues :
                                  issues[m].created >= sprint.startDate}}
      allChangelogs == getAllChangelogs(issuesNeedingChangelog, historyUp)
      addedIdx == {n \in DOMAIN issues :
                     issueAddedDate(issues[n], allChangelogs) # Null}
      addedIssues ==
        LET sel == SelectSeqBy(issues, {issues[n].key : n \in addedIdx})
        IN [n \in DOMAIN sel |->
              [ key |-> sel[n].key,
                addedDate |-> issueAddedDate(sel[n], allChangelogs),
                originalEstimate |-> secondsToHours(sel[n].timeoriginalestimate) ]]
      removedFromSprintIssues == getRemovedFromSprintIssues(historyUp)
      removedChangelogs == getAllChangelogs(KeysOf(removedFromSprintIssues), historyUp)
      removedIssues ==
        [n \in DOMAIN removedFromSprintIssues |->
           [ key |-> removedFromSprintIssues[n].key,
             removedDate |-> removeDate(removedFromSprintIssues[n], removedChangelogs),
             originalEstimate |->
               secondsToHours(removedFromSprintIssues[n].timeoriginalestimate) ]]
      allWorklogs == getAllWorklogs(KeysOf(issues), historyUp)
      scopeAdded ==
        [d \in SprintDays |-> SumSeq([n \in DOMAIN addedIssues |->
           IF addedIssues[n].addedDate = d THEN addedIssues[n].originalEstimate ELSE 0])]
      scopeRemoved ==
        [d \in SprintDays |-> SumSeq([n \in DOMAIN removedIssues |->
           IF removedIssues[n].removedDate = d THEN removedIssues[n].originalEstimate ELSE 0])]
      worklogByDate ==
        [d \in SprintDays |-> SumSeq([n \in DOMAIN allWorklogs |->
           IF allWorklogs[n].started = d
             THEN secondsToHours(allWorklogs[n].timeSpentSeconds) ELSE 0])]
      c == [ maxCapacity |-> maxCapacity, workingDays |-> workingDays,
             added |-> scopeAdded, removed |-> scopeRemoved,
             logged |-> worklogByDate ]
      startPoint ==
        [ date |-> Null, ideal |-> maxCapacity,
          remaining |-> totalOriginalEstimate, totalRemaining |-> Null,
          timeLogged |-> 0, dayLogged |-> 0, cumulativeLogged |-> 0,
          added |-> 0, removed |-> 0 ]
      map == buildSubtaskMap(issues)
  IN [ success |-> TRUE,
       dataPoints |-> <<startPoint>>
                      \o pointsFrom(sprint.startDate, 0, totalOriginalEstimate, 0, c),
       maxCapacity |-> maxCapacity,
       totalOriginalEstimate |-> totalOriginalEstimate,
       currentRemaining |-> currentRemaining,
       totalSpent |-> totalSpent,
       scopeAddedTotal |-> SumSeq([n \in DOMAIN addedIssues |->
                                     addedIssues[n].originalEstimate]),
       scopeRemovedTotal |-> SumSeq([n \in DOMAIN removedIssues |->
                                       removedIssues[n].originalEstimate]),
       workingDays |-> workingDays,
       teamSize |-> teamSize,
       assignees |-> allAssignees,
       issueDetails |-> sortByStatus([n \in DOMAIN issues |-> issueDetail(issues[n], map)]),
       removedIssueDetails |-> removedIssues,
       addedIssues |-> addedIssues,
       baselineIssueCount |-> Len(filteredIssues) ]

(***************************************************************************)
(* Resolver endpoints                                                      *)
(*   fetch is the answer of the issue source: "ok", "noBoard" (no boardId  *)
(*   in the payload), "noSprint" (no active sprint), "issuesFail" (the     *)
(*   issue search answers a non-success status);                           *)
(*   getOk, setOk, delOk say whether storage.get / set / delete return or  *)
(*   throw; historyUp which changelog and worklog requests succeed.        *)
(***************************************************************************)
Fetches == {"ok", "noBoard", "noSprint", "issuesFail"}

failure(fetch) ==
  [ success |-> FALSE,
    error |-> CASE fetch = "noBoard" -> "Board ID is required"
                [] fetch = "noSprint" -> "No active sprint found"
                [] fetch = "issuesFail" -> "Failed to fetch issues"
                [] OTHER -> "storage" ]

activeCountOf(allIssues) ==
  Cardinality({n \in DOMAIN allIssues : ~isDoneStatus(allIssues[n].status)})

noCall(op) ==
  [ op |-> op, before |-> storage, read |-> NoBaseline, activeCount |-> 0,
    corrupted |-> FALSE, deleteCalled |-> FALSE, setCalled |-> FALSE,
    assignee |-> "All", teamSize |-> 0, historyUp |-> HistoryKinds ]

GetBurndownData(assignee, configTeamSize, fetch, getOk, setOk, delOk, historyUp) ==
  /\ UNCHANGED <<requests, lookups, paging>>
  /\ UNCHANGED config
  /\ UNCHANGED <<jira, members, changelogs, worklogs, sprint, today>>
  /\ IF fetch # "ok"
       THEN /\ response' = failure(fetch)
            /\ storage' = storage
            /\ call' = noCall("getBurndownData")
       ELSE
         LET allIssues == getSprintIssues
             read == getSprintBaseline(getOk)
             currentActiveCount == activeCountOf(allIssues)
             corrupted ==
               /\ read # NoBaseline
               /\ isCorrupted(Len(read.issues), currentActiveCount)
             afterDelete == IF corrupted /\ delOk THEN NoBaseline ELSE storage
             kept == IF corrupted THEN NoBaseline ELSE read
             mustSave == kept = NoBaseline
             baseline == IF mustSave THEN newBaseline(allIssues) ELSE kept
             thisCall ==
               [ op |-> "getBurndownData", before |-> storage, read |-> read,
                 activeCount |-> currentActiveCount,
                 corrupted |-> corrupted, deleteCalled |-> corrupted,
                 setCalled |-> mustSave, assignee |-> assignee,
                 teamSize |-> configTeamSize, historyUp |-> historyUp ]
         IN IF mustSave /\ ~setOk
              THEN /\ storage' = afterDelete
                   /\ response' = failure("storage")
                   /\ call' = thisCall
              ELSE /\ storage' = IF mustSave THEN baseline ELSE afterDelete
                   /\ response' = burndownData(allIssues, baseline, assignee,
                                               configTeamSize, historyUp)
                   /\ call' = thisCall

DeleteBaseline(fetch, delOk) ==
  /\ UNCHANGED <<requests, lookups, paging>>
  /\ UNCHANGED config
  /\ fetch # "issuesFail"
  /\ UNCHANGED <<jira, members, changelogs, worklogs, sprint, today>>
  /\ call' = [noCall("deleteBaseline") EXCEPT !.deleteCalled = (fetch = "ok")]
  /\ IF fetch # "ok"
       THEN /\ response' = failure(fetch)
            /\ storage' = storage
       ELSE /\ storage' = IF delOk THEN NoBaseline ELSE storage
            /\ response' = [success |-> TRUE, message |-> "deleted"]

\* resetBaseline with the saveSprintBaseline it calls (first definition set)
resetSnapshot(issues) ==
  [ none |-> FALSE,
    createdAt |-> today,
    issueCount |-> Len(issues),
    issues |-> [n \in DOMAIN issues |->
                  [ key |-> issues[n].key,
                    originalEstimate |-> secondsToHours(issues[n].timeoriginalestimate),
                    assignee |-> issues[n].assignee,
                    status |-> issues[n].status,
                    isSubtask |-> issues[n].issuetype.subtask = TRUE
                                    \/ issues[n].parent # NoKey,
                    parentKey |-> issues[n].parent ]] ]

ResetBaseline(fetch, setOk) ==
  /\ UNCHANGED <<requests, lookups, paging>>
  /\ UNCHANGED config
  /\ UNCHANGED <<jira, members, changelogs, worklogs, sprint, today>>
  /\ call' = [noCall("resetBaseline") EXCEPT !.setCalled = (fetch = "ok")]
  /\ IF fetch # "ok"
       THEN /\ response' = failure(fetch)
            /\ storage' = storage
       ELSE LET issues == getSprintIssues
            IN /\ storage' = IF setOk THEN resetSnapshot(issues) ELSE storage
               /\ response' = [ success |-> TRUE, message |-> "reset",
                                issuesCount |-> Len(issues) ]

\* the sprint issues after the assignee filter of the payload
filterByAssignee(allIssues, assignee) ==
  SelectSeqBy(allIssues,
              {allIssues[n].key : n \in
                 {m \in DOMAIN allIssues :
                    assignee = "All" \/ allIssues[m].assignee = assignee}})

(***************************************************************************)
(* getBurndownData step by step: two invocations run concurrently, each    *)
(* one suspended at its awaits of the issue search and of the store        *)
(***************************************************************************)
Requests == {"r1", "r2"}

NoRequest ==
  [ pc |-> "idle", assignee |-> "All", allIssues |-> <<>>,
    read |-> NoBaseline, baseline |-> NoBaseline, setCalled |-> FALSE,
    response |-> [success |-> FALSE, error |-> "none"] ]

\* variant: the snapshot is taken of the issues the assignee filter leaves
baselineIssues_filtered(allIssues, assignee) ==
  filterByAssignee(allIssues, assignee)

\* the issues saveSprintBaseline is given: all of the sprint's
baselineIssues(allIssues, assignee) == allIssues

\* the payload is read, the active sprint and its issues are fetched
StartRequest(r, assignee) ==
  /\ UNCHANGED <<lookups, paging>>
  /\ requests[r].pc = "idle"
  /\ requests' = [requests EXCEPT ![r] =
       [NoRequest EXCEPT !.pc = "get", !.assignee = assignee,
                         !.allIssues = getSprintIssues]]
  /\ UNCHANGED <<jira, members, changelogs, worklogs, sprint, today, storage,
                 config, response, call>>

\* await getSprintBaseline, then the corruption test on what was read
StorageGet(r) ==
  /\ UNCHANGED <<lookups, paging>>
  /\ requests[r].pc = "get"
  /\ LET read == getSprintBaseline(TRUE)
         corrupted ==
           /\ read # NoBaseline
           /\ isCorrupted(Len(read.issues), activeCountOf(requests[r].allIssues))
     IN requests' = [requests EXCEPT ![r] =
          [@ EXCEPT !.read = read,
                    !.baseline = IF corrupted THEN NoBaseline ELSE read,
                    !.pc = IF corrupted THEN "delete"
                           ELSE IF read = NoBaseline THEN "set"
                           ELSE "respond"]]
  /\ UNCHANGED <<jira, members, changelogs, worklogs, sprint, today, storage,
                 config, response, call>>

\* await deleteSprintBaseline
StorageDelete(r) ==
  /\ UNCHANGED <<lookups, paging>>
  /\ requests[r].pc = "delete"
  /\ storage' = NoBaseline
  /\ requests' = [requests EXCEPT ![r].pc = "set"]
  /\ UNCHANGED <<jira, members, changelogs, worklogs, sprint, today, config,
                 response, call>>

\* await saveSprintBaseline: the snapshot is built, written and kept
StorageSet(r) ==
  /\ UNCHANGED <<lookups, paging>>
  /\ requests[r].pc = "set"
  /\ LET baseline ==
           newBaseline(baselineIssues(requests[r].allIssues, requests[r].assignee))
     IN /\ storage' = baseline
        /\ requests' = [requests EXCEPT ![r] =
             [@ EXCEPT !.baseline = baseline, !.setCalled = TRUE,
                       !.pc = "respond"]]
  /\ UNCHANGED <<jira, members, changelogs, worklogs, sprint, today, config,
                 response, call>>

\* the rest of the handler: the series from the baseline the request holds
Respond(r) ==
  /\ UNCHANGED <<lookups, paging>>
  /\ requests[r].pc = "respond"
  /\ LET req == requests[r]
     IN requests' = [requests EXCEPT ![r] =
          [req EXCEPT !.pc = "done",
                      !.response = burndownData(req.allIssues, req.baseline,
                                                req.assignee, 0, HistoryKinds)]]
  /\ UNCHANGED <<jira, members, changelogs, worklogs, sprint, today, storage,
                 config, response, call>>

(***************************************************************************)
(* The scope changes gadget                                                *)
(***************************************************************************)
\* the added list: changelogs are fetched only for the issues created on
\* or after the sprint's first day
scopeAdded(allIssues, historyUp) ==
  LET issuesNeedingChangelog ==
        {allIssues[n].key : n \in
           {m \in DOMAIN allIssues : allIssues[m].created >= sprint.startDate}}
      allChangelogs == getAllChangelogs(issuesNeedingChangelog, historyUp)
      addedKeys ==
        {allIssues[n].key : n \in
           {m \in DOMAIN allIssues :
              issueAddedDate(allIssues[m], allChangelogs) # Null}}
      kept == SelectSeqBy(allIssues, addedKeys)
  IN sortByStatus(
       [n \in DOMAIN kept |->
          [ key |-> kept[n].key,
            assignee |-> kept[n].assignee,
            priority |-> kept[n].priority,
            status |-> kept[n].status,
            changeType |-> "ADDED",
            changeDate |-> issueAddedDate(kept[n], allChangelogs),
            originalEstimate |-> secondsToHours(kept[n].timeoriginalestimate),
            remainingEstimate |-> secondsToHours(kept[n].timeestimate) ]])

\* the removed list: every issue the removed-issues lookup answers
scopeRemoved(historyUp) ==
  LET removedFromSprintIssues == getRemovedFromSprintIssues(historyUp)
      removedChangelogs ==
        getAllChangelogs(KeysOf(removedFromSprintIssues), historyUp)
  IN [n \in DOMAIN removedFromSprintIssues |->
        LET removedIssue == removedFromSprintIssues[n]
            removedDate ==
              analyzeSprintChangelog(removedChangelogs[removedIssue.key]).removedDate
        IN [ key |-> removedIssue.key,
             assignee |-> removedIssue.assignee,
             priority |-> removedIssue.priority,
             status |-> removedIssue.status,
             changeType |-> "REMOVED",
             changeDate |-> IF removedDate # Null THEN removedDate ELSE today,
             originalEstimate |-> secondsToHours(removedIssue.timeoriginalestimate),
             remainingEstimate |-> secondsToHours(removedIssue.timeestimate) ]]

GetScopeChanges(assignee, fetch, historyUp) ==
  /\ UNCHANGED <<requests, lookups, paging>>
  /\ UNCHANGED config
  /\ UNCHANGED <<jira, members, changelogs, worklogs, sprint, today, storage>>
  /\ call' = [noCall("getScopeChanges") EXCEPT !.assignee = assignee,
                                               !.historyUp = historyUp]
  /\ IF fetch # "ok"
       THEN response' = failure(fetch)
       ELSE LET allIssues == filterByAssignee(getSprintIssues, assignee)
                added == scopeAdded(allIssues, historyUp)
                removed == scopeRemoved(historyUp)
            IN response' =
                 [ success |-> TRUE,
                   added |-> added,
                   removed |-> removed,
                   priorityChanged |-> <<>>,
                   totalAdded |-> Len(added),
                   totalRemoved |-> Len(removed),
                   totalPriorityChanged |-> 0,
                   sprintStartDate |-> sprint.startDate ]

(***************************************************************************)
(* The sprint health and at risk gadgets                                   *)
(***************************************************************************)
\* the counter one issue increments
healthOf(issue) ==
  LET original == secondsToHours(issue.timeoriginalestimate)
      spent == secondsToHours(issue.timespent)
      remaining == secondsToHours(issue.timeestimate)
      actualTotal == spent + remaining
  IN IF original < actualTotal THEN "under"
     ELSE IF original > actualTotal THEN "good"
     ELSE "normal"

healthCount(issues, bucket) ==
  Cardinality({n \in DOMAIN issues : healthOf(issues[n]) = bucket})

GetSprintHealth(assignee, fetch) ==
  /\ UNCHANGED <<requests, lookups, paging>>
  /\ UNCHANGED <<jira, members, changelogs, worklogs, sprint, today, storage,
                 config>>
  /\ call' = [noCall("getSprintHealth") EXCEPT !.assignee = assignee]
  /\ IF fetch # "ok"
       THEN response' = failure(fetch)
       ELSE LET issues == filterByAssignee(getSprintIssues, assignee)
            IN response' =
                 [ success |-> TRUE,
                   counts |-> [ under |-> healthCount(issues, "under"),
                                normal |-> healthCount(issues, "normal"),
                                good |-> healthCount(issues, "good"),
                                total |-> Len(issues) ] ]

NoRisk == "none"

\* variant: the time box reason is kept when the deadline has passed too
riskReasonOf_timeBoxWins(issue) ==
  LET remaining == secondsToHours(issue.timeestimate)
      original == secondsToHours(issue.timeoriginalestimate)
  IN IF remaining = 0 /\ original > 0 THEN "TIME_BOX_EXCEEDED"
     ELSE IF issue.duedate # Null /\ issue.duedate <= today
       THEN "DEADLINE_EXCEEDED"
     ELSE NoRisk

\* riskReason of one issue that is not Done-like
riskReasonOf(issue) ==
  LET remaining == secondsToHours(issue.timeestimate)
      original == secondsToHours(issue.timeoriginalestimate)
      timeBox == IF remaining = 0 /\ original > 0
                   THEN "TIME_BOX_EXCEEDED" ELSE NoRisk
  IN IF issue.duedate # Null /\ issue.duedate <= today
       THEN "DEADLINE_EXCEEDED"
       ELSE timeBox

atRiskItems(issues) ==
  LET riskKeys ==
        {issues[n].key : n \in
           {m \in DOMAIN issues :
              /\ ~isDoneStatus(issues[m].status)
              /\ riskReasonOf(issues[m]) # NoRisk}}
      kept == SelectSeqBy(issues, riskKeys)
  IN sortByStatus(
       [n \in DOMAIN kept |->
          [ key |-> kept[n].key,
            assignee |-> kept[n].assignee,
            priority |-> kept[n].priority,
            status |-> kept[n].status,
            originalEstimate |-> secondsToHours(kept[n].timeoriginalestimate),
            remainingEstimate |-> secondsToHours(kept[n].timeestimate),
            riskReason |-> riskReasonOf(kept[n]) ]])

GetAtRiskItems(assignee, fetch) ==
  /\ UNCHANGED <<requests, lookups, paging>>
  /\ UNCHANGED <<jira, members, changelogs, worklogs, sprint, today, storage,
                 config>>
  /\ call' = [noCall("getAtRiskItems") EXCEPT !.assignee = assignee]
  /\ IF fetch # "ok"
       THEN response' = failure(fetch)
       ELSE LET items == atRiskItems(filterByAssignee(getSprintIssues, assignee))
            IN response' =
                 [success |-> TRUE, items |-> items, total |-> Len(items)]

(***************************************************************************)
(* Boards and the gadget's configuration                                   *)
(***************************************************************************)
\* the scrum boards of the site as the board listing answers them
Boards == << [id |-> 1, name |-> "Team", projectKey |-> "TM"] >>

\* getBoards: boardsOk says whether the board listing answers a success
\* status
GetBoards(boardsOk) ==
  /\ UNCHANGED <<requests, lookups, paging>>
  /\ UNCHANGED <<jira, members, changelogs, worklogs, sprint, today, storage,
                 config>>
  /\ call' = noCall("getBoards")
  /\ response' = IF boardsOk
                   THEN [success |-> TRUE, boards |-> Boards]
                   ELSE [success |-> FALSE, error |-> "Failed to fetch boards"]

defaultConfig == [boardId |-> Null, teamSize |-> 10, workingDays |-> 10]

ConfigPayloads ==
  { [boardId |-> 1, teamSize |-> t, workingDays |-> 10] : t \in TeamSizes }

\* getConfig: the stored configuration, the default one when none is stored
\* or when storage.get throws
GetConfig(getOk) ==
  /\ UNCHANGED <<requests, lookups, paging>>
  /\ UNCHANGED <<jira, members, changelogs, worklogs, sprint, today, storage,
                 config>>
  /\ call' = noCall("getConfig")
  /\ response' = IF getOk /\ config # NoConfig THEN config ELSE defaultConfig

SaveConfig(payload, setOk) ==
  /\ UNCHANGED <<requests, lookups, paging>>
  /\ UNCHANGED <<jira, members, changelogs, worklogs, sprint, today, storage>>
  /\ call' = [noCall("saveConfig") EXCEPT !.setCalled = TRUE]
  /\ IF setOk
       THEN /\ config' = payload
            /\ response' = [success |-> TRUE]
       ELSE /\ config' = config
            /\ response' = failure("storage")

(***************************************************************************)
(* The tracker and the calendar (the collaborators the resolvers read)     *)
(***************************************************************************)
WorklogSeconds == {5400}

\* no invocation is in progress: the last result went back to its caller
NoResponse == [success |-> FALSE, error |-> "none"]

NoCall ==
  [ op |-> "none", before |-> NoBaseline, read |-> NoBaseline,
    activeCount |-> 0, corrupted |-> FALSE, deleteCalled |-> FALSE,
    setCalled |-> FALSE, assignee |-> "All", teamSize |-> 0,
    historyUp |-> HistoryKinds ]

\* no invocation is pending: events of the tracker and new invocations are
\* taken one at a time, after the last result went back
Idle == response = NoResponse /\ call = NoCall

\* the result of the last invocation goes back to the gadget
Return ==
  /\ UNCHANGED <<requests, lookups, paging>>
  /\ UNCHANGED config
  /\ ~Idle
  /\ response' = NoResponse
  /\ call' = NoCall
  /\ UNCHANGED <<jira, members, changelogs, worklogs, sprint, today, storage>>

\* an issue enters the sprint: created in it (no Sprint history entry, the
\* creation date is today) or moved into it (a Sprint history entry)
AddToSprint(k, viaCreate) ==
  /\ UNCHANGED <<requests, lookups, paging>>
  /\ UNCHANGED config
  /\ Idle
  /\ k \notin members
  /\ IF viaCreate
       THEN /\ changelogs[k] = <<>>
            /\ jira[k].created < sprint.startDate
            /\ jira' = [jira EXCEPT ![k].created = today]
            /\ UNCHANGED changelogs
       ELSE /\ Len(changelogs[k]) < MaxHist
            /\ changelogs' = [changelogs EXCEPT ![k] =
                 Append(@, [created |-> today, from |-> FALSE, to |-> TRUE])]
            /\ UNCHANGED jira
  /\ members' = members \cup {k}
  /\ UNCHANGED <<worklogs, sprint, today, storage>>
  /\ UNCHANGED <<response, call>>

RemoveFromSprint(k) ==
  /\ UNCHANGED <<requests, lookups, paging>>
  /\ UNCHANGED config
  /\ Idle
  /\ k \in members
  /\ Len(changelogs[k]) < MaxHist
  /\ changelogs' = [changelogs EXCEPT ![k] =
       Append(@, [created |-> today, from |-> TRUE, to |-> FALSE])]
  /\ members' = members \ {k}
  /\ UNCHANGED <<jira, worklogs, sprint, today, storage>>
  /\ UNCHANGED <<response, call>>

SetStatus(k, s) ==
  /\ UNCHANGED <<requests, lookups, paging>>
  /\ UNCHANGED config
  /\ Idle
  /\ k \in members
  /\ jira[k].status # s
  /\ jira' = [jira EXCEPT ![k].status = s]
  /\ UNCHANGED <<members, changelogs, worklogs, sprint, today, storage>>
  /\ UNCHANGED <<response, call>>

SetPriority(k, p) ==
  /\ UNCHANGED <<requests, lookups, paging>>
  /\ UNCHANGED config
  /\ Idle
  /\ k \in members
  /\ jira[k].priority # p
  /\ jira' = [jira EXCEPT ![k].priority = p]
  /\ UNCHANGED <<members, changelogs, worklogs, sprint, today, storage>>
  /\ UNCHANGED <<response, call>>

\* the original estimate of an issue is cleared
ClearOriginalEstimate(k) ==
  /\ UNCHANGED <<requests, lookups, paging>>
  /\ Idle
  /\ k \in members
  /\ jira[k].timeoriginalestimate # 0
  /\ jira' = [jira EXCEPT ![k].timeoriginalestimate = 0]
  /\ UNCHANGED <<members, changelogs, worklogs, sprint, today, storage, config>>
  /\ UNCHANGED <<response, call>>

\* the remaining estimate of an issue reaches zero
ZeroRemaining(k) ==
  /\ UNCHANGED <<requests, lookups, paging>>
  /\ Idle
  /\ k \in members
  /\ jira[k].timeestimate # 0
  /\ jira' = [jira EXCEPT ![k].timeestimate = 0]
  /\ UNCHANGED <<members, changelogs, worklogs, sprint, today, storage, config>>
  /\ UNCHANGED <<response, call>>

\* an issue gets a due date
SetDueDate(k, d) ==
  /\ UNCHANGED <<requests, lookups, paging>>
  /\ Idle
  /\ k \in members
  /\ jira[k].duedate = Null
  /\ jira' = [jira EXCEPT ![k].duedate = d]
  /\ UNCHANGED <<members, changelogs, worklogs, sprint, today, storage, config>>
  /\ UNCHANGED <<response, call>>

LogWork(k, seconds) ==
  /\ UNCHANGED <<requests, lookups, paging>>
  /\ UNCHANGED config
  /\ Idle
  /\ k \in members
  /\ Len(worklogs) < MaxWorklogs
  /\ worklogs' = Append(worklogs,
       [key |-> k, started |-> today, timeSpentSeconds |-> seconds])
  /\ UNCHANGED <<jira, members, changelogs, sprint, today, storage>>
  /\ UNCHANGED <<response, call>>

Tick ==
  /\ UNCHANGED <<requests, lookups, paging>>
  /\ UNCHANGED config
  /\ Idle
  /\ today <= sprint.endDate
  /\ today' = today + 1
  /\ UNCHANGED <<jira, members, changelogs, worklogs, sprint, storage>>
  /\ UNCHANGED <<response, call>>

(***************************************************************************)
(* Initial states                                                          *)
(***************************************************************************)
\* time tracking fields of the issues, in seconds
estimateOf(k) ==
  CASE k = 1 -> [timeoriginalestimate |-> 28800, timeestimate |-> 21600, timespent |-> 7200]
    [] k = 2 -> [timeoriginalestimate |-> 18000, timeestimate |-> 10800, timespent |-> 10800]
    [] k = 3 -> [timeoriginalestimate |-> 14400, timeestimate |-> 10800, timespent |-> 0]
    [] OTHER -> [timeoriginalestimate |-> 9000, timeestimate |-> 5000, timespent |-> 1700 * k]

\* issue type, parent and subtasks outside the modelled issues: a subtask
\* has a parent, created before it, that is not itself a subtask
ShapeOptions(n) ==
  { [issuetype |-> t, parent |-> p, extraSubtasks |-> e] :
      t \in IssueTypes, p \in 0..n, e \in {0, 1} }

Shapes(n) ==
  { f \in [1..n -> ShapeOptions(n)] :
      \A k \in 1..n :
        IF f[k].issuetype.subtask
          THEN /\ f[k].parent \in 1..(k - 1)
               /\ ~f[f[k].parent].issuetype.subtask
               /\ f[k].extraSubtasks = 0
          ELSE f[k].parent = NoKey }

PlainShapes(n) ==
  { [k \in 1..n |-> [issuetype |-> TypeTask, parent |-> NoKey, extraSubtasks |-> 0]] }

\* every assignment of the issues to the two people, issue 1 being An's
\* (the program treats the two names alike)
Assignments(n) == {f \in [1..n -> Assignees] : f[1] = "An"}

AlternateAssignments(n) ==
  { [k \in 1..n |-> IF k % 2 = 1 THEN "An" ELSE "Binh"] }

\* times of day of the sprint's start and end: 09:00 and 17:00
TimesOfDay == {9, 17}

AllSprints ==
  { [startDate |-> s, startTime |-> st, endDate |-> e, endTime |-> et] :
      s \in 1..7, e \in 1..(7 + MaxSpan), st \in TimesOfDay, et \in TimesOfDay }

Sprints == { sp \in AllSprints : notAfter(startOf(sp), endOf(sp))
                                  /\ sp.endDate <= sp.startDate + MaxSpan }

\* Thursday to the Tuesday after
OneSprint == { [startDate |-> 4, startTime |-> 9, endDate |-> 9, endTime |-> 9] }

AllToDo(n) == [k \in 1..n |-> StToDo]

AllClosed(n) == [k \in 1..n |-> IF k % 2 = 1 THEN StDone ELSE StResolved]

\* the issues of the tracker, the sprint and the gadget at rest
InitIssues(n, shapes, assignments, statuses, sprints, memberSets) ==
  /\ sprint \in sprints
  /\ today = sprint.startDate
  /\ members \in memberSets
  /\ \E shape \in shapes, asg \in assignments, st \in statuses :
       jira = [k \in 1..n |->
                 [ status |-> st[k],
                   assignee |-> asg[k],
                   issuetype |-> shape[k].issuetype,
                   parent |-> shape[k].parent,
                   extraSubtasks |-> shape[k].extraSubtasks,
                   timeoriginalestimate |-> estimateOf(k).timeoriginalestimate,
                   timeestimate |-> estimateOf(k).timeestimate,
                   timespent |-> estimateOf(k).timespent,
                   priority |-> PrMedium,
                   duedate |-> Null,
                   created |-> sprint.startDate - 1 ]]
  /\ config = NoConfig
  /\ requests = [r \in Requests |-> NoRequest]
  /\ lookups = NoLookups
  /\ paging = NoPaging
  /\ response = NoResponse
  /\ call = NoCall

\* the same with no Sprint history and no work logged yet
InitTracker(n, shapes, assignments, statuses, sprints, memberSets) ==
  /\ InitIssues(n, shapes, assignments, statuses, sprints, memberSets)
  /\ changelogs = [k \in 1..n |-> <<>>]
  /\ worklogs = <<>>

\* the tracker, the calendar and the gadget before any baseline is stored
InitWith(n, shapes, assignments, statuses, sprints, memberSets) ==
  /\ InitTracker(n, shapes, assignments, statuses, sprints, memberSets)
  /\ storage = NoBaseline

\* the same sprint after the gadget was opened on its first day: the
\* baseline of that day is stored
InitOpened(n, shapes, assignments, statuses, sprints, memberSets) ==
  /\ InitTracker(n, shapes, assignments, statuses, sprints, memberSets)
  /\ storage = newBaseline(getSprintIssues)

(***************************************************************************)
(* Specifications                                                          *)
(***************************************************************************)
CallBurndown(filters, teamSizes, faultSets) ==
  \/ \E assignee \in filters, configTeamSize \in teamSizes, faults \in faultSets :
       Idle /\ GetBurndownData(assignee, configTeamSize, "ok", "get" \notin faults,
                               "set" \notin faults, "del" \notin faults,
                               HistoryKinds \ faults)
  \/ \E fetch \in Fetches \ {"ok"} :
       Idle /\ GetBurndownData("All", 0, fetch, TRUE, TRUE, TRUE, HistoryKinds)

CallDelete ==
  \E fetch \in Fetches, delOk \in BOOLEAN : Idle /\ DeleteBaseline(fetch, delOk)

CallReset ==
  \E fetch \in Fetches, setOk \in BOOLEAN : Idle /\ ResetBaseline(fetch, setOk)

\* fewer than MaxHist scope events so far: Sprint history entries and
\* issues created inside the sprint
HistoryBudget ==
  SumOver([k \in Keys |-> Len(changelogs[k])], Keys)
    + Cardinality({k \in Keys : jira[k].created >= sprint.startDate}) < MaxHist

StorageFaults == { {}, {"get"}, {"set"}, {"del"} }

\* Spec: the baseline of one sprint while issues enter and leave the sprint
\* and change status, the store failing now and then
Init ==
  InitWith(MaxIssues, PlainShapes(MaxIssues), AlternateAssignments(MaxIssues),
           {AllToDo(MaxIssues)}, OneSprint, {1..MaxIssues})

Next ==
  \/ CallBurndown({"All", "An"}, {0}, StorageFaults)
  \/ Return
  \/ CallDelete
  \/ \E k \in Keys : HistoryBudget /\ AddToSprint(k, FALSE)
  \/ \E k \in Keys : HistoryBudget /\ RemoveFromSprint(k)
  \/ \E k \in Keys : \E s \in StatusChoices(k) : SetStatus(k, s)

Spec == Init /\ [][Next]_vars

\* the gadget asks again at once, with the payload of the call that just
\* succeeded and the same answers of the changelog and worklog requests
CallAgain(faultSets) ==
  \E faults \in faultSets :
    /\ call.op = "getBurndownData" /\ response.success
    /\ GetBurndownData(call.assignee, call.teamSize, "ok", "get" \notin faults,
                       "set" \notin faults, "del" \notin faults, call.historyUp)

\* SpecTwice: Spec with the immediate second call
NextTwice == Next \/ CallAgain(StorageFaults)

SpecTwice == Init /\ [][NextTwice]_vars

\* SpecReset: the reset and delete endpoints on the same sprint
NextReset ==
  \/ CallReset
  \/ Return
  \/ CallDelete
  \/ \E k \in Keys : HistoryBudget /\ AddToSprint(k, FALSE)
  \/ \E k \in Keys : HistoryBudget /\ RemoveFromSprint(k)
  \/ \E k \in Keys : \E s \in StatusChoices(k) : SetStatus(k, s)

SpecReset == Init /\ [][NextReset]_vars

\* SpecAgg: one opened gadget over every arrangement of tasks, parents and
\* subtasks and every assignment of them to two people
InitAgg ==
  InitWith(MaxAggIssues, Shapes(MaxAggIssues), Assignments(MaxAggIssues),
           {AllToDo(MaxAggIssues), AllClosed(MaxAggIssues)}, OneSprint,
           {1..MaxAggIssues})

NextAgg == CallBurndown(Filters, {0}, {{}}) \/ Return

SpecAgg == InitAgg /\ [][NextAgg]_vars

\* SpecSeries: a sprint from Monday to Wednesday, its baseline taken on the
\* Monday, while days pass, work is logged and issues enter and leave it
ShortSprint == { [startDate |-> 1, startTime |-> 9, endDate |-> 3, endTime |-> 9] }

InitSeries ==
  InitOpened(MaxSeriesIssues, PlainShapes(MaxSeriesIssues),
           AlternateAssignments(MaxSeriesIssues), {AllToDo(MaxSeriesIssues)},
           ShortSprint, {{1}})

NextSeries ==
  \/ CallBurndown({"All", "An"}, {0}, {{}})
  \/ Return
  \/ Tick
  \/ \E k \in Keys, seconds \in WorklogSeconds : LogWork(k, seconds)
  \/ \E k \in Keys, viaCreate \in BOOLEAN : HistoryBudget /\ AddToSprint(k, viaCreate)
  \/ \E k \in Keys : HistoryBudget /\ RemoveFromSprint(k)

SpecSeries == InitSeries /\ [][NextSeries]_vars

\* SpecScope: the scope changes gadget on the sprint of SpecSeries, whose
\* baseline was taken on the Monday, while issues enter and leave the
\* sprint and change priority
CallScope(filters) ==
  \E assignee \in filters, fetch \in Fetches, historyUp \in {HistoryKinds, {}} :
    Idle /\ GetScopeChanges(assignee, fetch, historyUp)

InitScope ==
  InitOpened(MaxSeriesIssues, PlainShapes(MaxSeriesIssues),
           AlternateAssignments(MaxSeriesIssues), {AllToDo(MaxSeriesIssues)},
           ShortSprint, {{1}})

NextScope ==
  \/ CallScope({"All", "An"})
  \/ Return
  \/ Tick
  \/ \E k \in Keys, p \in Priorities : SetPriority(k, p)
  \/ \E k \in Keys, viaCreate \in BOOLEAN : HistoryBudget /\ AddToSprint(k, viaCreate)
  \/ \E k \in Keys : HistoryBudget /\ RemoveFromSprint(k)

SpecScope == InitScope /\ [][NextScope]_vars

\* SpecHealth: the sprint health gadget while estimates are cleared and
\* remaining work reaches zero
CallHealth(filters) ==
  \E assignee \in filters, fetch \in Fetches :
    Idle /\ GetSprintHealth(assignee, fetch)

NextHealth ==
  \/ CallHealth({"All", "An"})
  \/ Return
  \/ \E k \in Keys : ClearOriginalEstimate(k)
  \/ \E k \in Keys : ZeroRemaining(k)

SpecHealth == Init /\ [][NextHealth]_vars

\* SpecRisk: the at risk gadget on the sprint of SpecSeries while days pass,
\* issues get the Tuesday as due date, lose their estimates and close
CallAtRisk(filters) ==
  \E assignee \in filters, fetch \in Fetches :
    Idle /\ GetAtRiskItems(assignee, fetch)

DueDates == {2}

InitRisk ==
  InitWith(MaxSeriesIssues, PlainShapes(MaxSeriesIssues),
           AlternateAssignments(MaxSeriesIssues), {AllToDo(MaxSeriesIssues)},
           ShortSprint, {1..MaxSeriesIssues})

NextRisk ==
  \/ CallAtRisk({"All", "An"})
  \/ Return
  \/ Tick
  \/ \E k \in Keys, d \in DueDates : SetDueDate(k, d)
  \/ \E k \in Keys : ClearOriginalEstimate(k)
  \/ \E k \in Keys : ZeroRemaining(k)
  \/ \E k \in Keys : \E s \in StatusChoices(k) : SetStatus(k, s)

SpecRisk == InitRisk /\ [][NextRisk]_vars

\* SpecEndpoints: every endpoint of the gadgets on the sprint of Spec, the
\* tracker, the board listing and the store failing now and then
CallConfig ==
  \/ \E boardsOk \in BOOLEAN : Idle /\ GetBoards(boardsOk)
  \/ \E getOk \in BOOLEAN : Idle /\ GetConfig(getOk)
  \/ \E payload \in ConfigPayloads, setOk \in BOOLEAN :
       Idle /\ SaveConfig(payload, setOk)

NextEndpoints ==
  \/ CallBurndown({"All", "An"}, {0}, StorageFaults \cup {HistoryKinds})
  \/ CallDelete
  \/ CallScope({"All"})
  \/ CallHealth({"All"})
  \/ CallAtRisk({"All"})
  \/ CallConfig
  \/ Return
  \/ \E k \in Keys : \E s \in StatusChoices(k) : SetStatus(k, s)

SpecEndpoints == Init /\ [][NextEndpoints]_vars

\* SpecDegraded: the sprint of SpecSeries, and the same sprint started at
\* 17:00, while the changelog, worklog and removed-issues requests fail
HistoryFaults == (SUBSET HistoryKinds) \ {{}}

DegradedSprints ==
  ShortSprint \cup { [startDate |-> 1, startTime |-> 17, endDate |-> 3, endTime |-> 9] }

InitDegraded ==
  InitOpened(MaxSeriesIssues, PlainShapes(MaxSeriesIssues),
           AlternateAssignments(MaxSeriesIssues), {AllToDo(MaxSeriesIssues)},
           DegradedSprints, {{1}})

NextDegraded ==
  \/ CallBurndown({"All"}, {0}, HistoryFaults)
  \/ Return
  \/ Tick
  \/ \E k \in Keys, seconds \in WorklogSeconds : LogWork(k, seconds)
  \/ \E k \in Keys, viaCreate \in BOOLEAN : HistoryBudget /\ AddToSprint(k, viaCreate)
  \/ \E k \in Keys : HistoryBudget /\ RemoveFromSprint(k)

SpecDegraded == InitDegraded /\ [][NextDegraded]_vars

\* SpecRace: two invocations of getBurndownData on a sprint whose tracker
\* does not change, the store holding no baseline or one taken when the
\* sprint had no open issue
InitRace ==
  /\ InitTracker(MaxSeriesIssues, PlainShapes(MaxSeriesIssues),
                 AlternateAssignments(MaxSeriesIssues),
                 {AllToDo(MaxSeriesIssues), AllClosed(MaxSeriesIssues)},
                 ShortSprint, {1..MaxSeriesIssues})
  /\ storage \in {NoBaseline, newBaseline(<<>>)}

NextRace ==
  \/ \E r \in Requests, assignee \in {"All", "An"} : StartRequest(r, assignee)
  \/ \E r \in Requests : StorageGet(r)
  \/ \E r \in Requests : StorageDelete(r)
  \/ \E r \in Requests : StorageSet(r)
  \/ \E r \in Requests : Respond(r)
  \/ Tick

SpecRace == InitRace /\ [][NextRace]_vars

(***************************************************************************)
(* The history lookups step by step                                        *)
(*                                                                         *)
(* getAllChangelogs and getAllWorklogs walk the issue list in slices of    *)
(* BATCH_SIZE; the calls of one slice are started together and awaited     *)
(* with Promise.all, whose result keeps the order of the slice whatever    *)
(* the order of completion.  getBurndownData awaits the changelog lookups, *)
(* then the worklog lookups, and builds the series after both.             *)
(***************************************************************************)
BATCH_SIZE == 5

LookupKinds == <<"changelog", "worklog">>

Min(a, b) == IF a < b THEN a ELSE b

\* variant: the whole rest of the list is started at once
batchOf_rest(issues, i) == SubSeq(issues, i + 1, Len(issues))

\* issues.slice(i, i + BATCH_SIZE)
batchOf(issues, i) == SubSeq(issues, i + 1, Min(i + BATCH_SIZE, Len(issues)))

\* the answer of one per-issue request: the issue's histories or work
\* logs, the empty list when the request failed
historyAnswer(kind, k, ok) ==
  IF ~ok THEN <<>>
  ELSE IF kind = "changelog" THEN changelogs[k]
  ELSE worklogsOf(worklogs, {k})

\* results.forEach(worklogs => allWorklogs.push(...worklogs))
RECURSIVE pushAll(_, _, _)
pushAll(allWorklogs, batch, batchResults) ==
  IF batch = <<>> THEN allWorklogs
  ELSE pushAll(allWorklogs \o batchResults[Head(batch)], Tail(batch), batchResults)

\* getBurndownData reaches its first history lookup
BeginLookups ==
  /\ Idle
  /\ lookups = NoLookups
  /\ lookups' = [ pc |-> "loop", kind |-> 1,
                  issues |-> [i \in 1..Cardinality(Keys) |-> i],
                  i |-> 0, inFlight |-> {}, batchResults |-> <<>>,
                  results |-> <<>>, allWorklogs |-> <<>>,
                  answers |-> {} ]
  /\ UNCHANGED <<jira, members, changelogs, worklogs, sprint, today, storage,
                 config, response, call, requests, paging>>

\* one turn of the for loop: the calls of the next slice are started
StartBatch ==
  /\ lookups.pc = "loop"
  /\ lookups.i < Len(lookups.issues)
  /\ LET b == batchOf(lookups.issues, lookups.i)
     IN lookups' = [lookups EXCEPT
          !.pc = "batch",
          !.inFlight = {b[j] : j \in DOMAIN b},
          !.batchResults = <<>>]
  /\ UNCHANGED <<jira, members, changelogs, worklogs, sprint, today, storage,
                 config, response, call, requests, paging>>

\* the tracker answers one of the calls in flight
Answer(k, ok) ==
  /\ lookups.pc = "batch"
  /\ k \in lookups.inFlight
  /\ lookups' = [lookups EXCEPT
       !.inFlight = @ \ {k},
       !.batchResults = @ @@ (k :> historyAnswer(LookupKinds[lookups.kind], k, ok)),
       !.answers = @ \cup {<<lookups.kind, k, ok>>}]
  /\ UNCHANGED <<jira, members, changelogs, worklogs, sprint, today, storage,
                 config, response, call, requests, paging>>

\* Promise.all resolves: the results of the slice are folded in, in the
\* order of the slice
Join ==
  /\ lookups.pc = "batch"
  /\ lookups.inFlight = {}
  /\ LET batch == batchOf(lookups.issues, lookups.i)
     IN lookups' = [lookups EXCEPT
          !.pc = "loop",
          !.i = @ + BATCH_SIZE,
          !.batchResults = <<>>,
          !.results = IF LookupKinds[lookups.kind] = "changelog"
                        THEN lookups.batchResults @@ @ ELSE @,
          !.allWorklogs = IF LookupKinds[lookups.kind] = "worklog"
                            THEN pushAll(@, batch, lookups.batchResults) ELSE @]
  /\ UNCHANGED <<jira, members, changelogs, worklogs, sprint, today, storage,
                 config, response, call, requests, paging>>

\* the for loop is over: the next lookup begins, or the lookups are done
NextLookup ==
  /\ lookups.pc = "loop"
  /\ lookups.i >= Len(lookups.issues)
  /\ lookups' = IF lookups.kind < Len(LookupKinds)
                  THEN [lookups EXCEPT !.kind = @ + 1, !.i = 0]
                  ELSE [lookups EXCEPT !.pc = "done"]
  /\ UNCHANGED <<jira, members, changelogs, worklogs, sprint, today, storage,
                 config, response, call, requests, paging>>

\* the series is built from what was collected
BuildSeries ==
  /\ lookups.pc = "done"
  /\ lookups' = [lookups EXCEPT !.pc = "built"]
  /\ UNCHANGED <<jira, members, changelogs, worklogs, sprint, today, storage,
                 config, response, call, requests, paging>>

\* the invocation ends
EndLookups ==
  /\ lookups.pc = "built"
  /\ lookups' = NoLookups
  /\ UNCHANGED <<jira, members, changelogs, worklogs, sprint, today, storage,
                 config, response, call, requests, paging>>

\* SpecBatch: a sprint of more issues than one slice holds, each with a
\* Sprint history and a work log of its own, and one invocation after the
\* other looking them up
InitBatch ==
  /\ InitIssues(MaxLookups, PlainShapes(MaxLookups), AlternateAssignments(MaxLookups),
                {AllToDo(MaxLookups)}, ShortSprint, {1..MaxLookups})
  /\ storage = NoBaseline
  /\ changelogs = [k \in 1..MaxLookups |->
       <<[created |-> 1 + (k % 3), from |-> FALSE, to |-> TRUE]>>]
  /\ worklogs = [k \in 1..MaxLookups |->
       [key |-> k, started |-> 1 + (k % 2), timeSpentSeconds |-> 3600 * k]]

NextBatch ==
  \/ BeginLookups
  \/ StartBatch
  \/ \E k \in Keys, ok \in BOOLEAN : Answer(k, ok)
  \/ Join
  \/ NextLookup
  \/ BuildSeries
  \/ EndLookups

SpecBatch == InitBatch /\ [][NextBatch]_vars

(***************************************************************************)
(* The pagination loops step by step                                       *)
(*                                                                         *)
(* getSprintIssues asks for the next page as long as the answer carries a  *)
(* nextPageToken; getIssueChangelog and getIssueWorklogs ask for the page  *)
(* at startAt as long as fewer entries were collected than the answer's    *)
(* total.  The tracker holds a number of entries and serves them in pages  *)
(* of maxResults; what it reports as token or total is its own choice.     *)
(* startAt is maxResults times the number of pages read, so the page it    *)
(* selects is the one after the entries collected so far, and an empty     *)
(* page once all entries were collected.                                   *)
(***************************************************************************)
\* the page size, 100 in the source, scaled to two entries
maxResults == 2

\* the loops: getSprintIssues of the resolvers, getSprintIssues of the
\* daily snapshot (src/index.js), getIssueChangelog and getIssueWorklogs
IssueLoops == {"getSprintIssues", "snapshot.getSprintIssues"}
HistoryLoops == {"getIssueChangelog", "getIssueWorklogs"}
PagingLoops == IssueLoops \cup HistoryLoops

\* the entries the tracker serves for one request
pageOf(collected, entries) ==
  [j \in 1..Min(maxResults, entries - Len(collected)) |-> Len(collected) + j]

\* the loop is entered with nothing collected
BeginPaging(loop, entries) ==
  /\ Idle
  /\ paging = NoPaging
  /\ paging' = [ pc |-> "request", loop |-> loop, entries |-> entries,
                 collected |-> <<>>, failed |-> FALSE, result |-> <<>> ]
  /\ UNCHANGED <<jira, members, changelogs, worklogs, sprint, today, storage,
                 config, response, call, requests, lookups>>

\* await api.asUser().requestJira(...): the request for the next page is
\* sent
SendPageRequest ==
  /\ paging.pc = "request"
  /\ paging' = [paging EXCEPT !.pc = "waiting"]
  /\ UNCHANGED <<jira, members, changelogs, worklogs, sprint, today, storage,
                 config, response, call, requests, lookups>>

\* the tracker answers: the request failed, or it carries a page with a
\* nextPageToken (issue search) or a total (changelog, worklog)
PageAnswer(ok, nextPageToken, total) ==
  /\ paging.pc = "waiting"
  /\ LET allEntries == paging.collected \o pageOf(paging.collected, paging.entries)
     IN paging' =
          IF ~ok THEN
            CASE paging.loop = "getSprintIssues" ->
                   [paging EXCEPT !.pc = "thrown", !.failed = TRUE]
              [] paging.loop = "snapshot.getSprintIssues" ->
                   [paging EXCEPT !.pc = "returned", !.failed = TRUE,
                                  !.result = paging.collected]
              [] OTHER ->
                   [paging EXCEPT !.pc = "returned", !.failed = TRUE,
                                  !.result = <<>>]
          ELSE IF paging.loop \in IssueLoops THEN
            IF nextPageToken
              THEN [paging EXCEPT !.pc = "request", !.collected = allEntries]
              ELSE [paging EXCEPT !.pc = "returned", !.collected = allEntries,
                                  !.result = allEntries]
          ELSE
            IF Len(allEntries) >= total
              THEN [paging EXCEPT !.pc = "returned", !.collected = allEntries,
                                  !.result = allEntries]
              ELSE [paging EXCEPT !.pc = "request", !.collected = allEntries]
  /\ UNCHANGED <<jira, members, changelogs, worklogs, sprint, today, storage,
                 config, response, call, requests, lookups>>

\* the caller has the loop's outcome
EndPaging ==
  /\ paging.pc \in {"returned", "thrown"}
  /\ paging' = NoPaging
  /\ UNCHANGED <<jira, members, changelogs, worklogs, sprint, today, storage,
                 config, response, call, requests, lookups>>

\* SpecPaging: one pagination loop after the other against a tracker that
\* holds up to MaxEntries entries and answers each request as it likes
InitPaging ==
  /\ InitTracker(1, PlainShapes(1), AlternateAssignments(1), {AllToDo(1)},
                 ShortSprint, {{1}})
  /\ storage = NoBaseline

NextPaging ==
  \/ \E loop \in PagingLoops, entries \in 0..MaxEntries : BeginPaging(loop, entries)
  \/ SendPageRequest
  \/ \E ok \in BOOLEAN, nextPageToken \in BOOLEAN, total \in 0..(MaxEntries + 1) :
       PageAnswer(ok, nextPageToken, total)
  \/ EndPaging

SpecPaging == InitPaging /\ [][NextPaging]_vars

\* the same where the program goes on and the tracker answers every
\* request
FairPaging ==
  /\ WF_vars(SendPageRequest)
  /\ WF_vars(\E ok \in BOOLEAN, nextPageToken \in BOOLEAN, total \in 0..(MaxEntries + 1) :
               PageAnswer(ok, nextPageToken, total))
  /\ WF_vars(EndPaging)

SpecPagingFair == SpecPaging /\ FairPaging

\* the analysis of one issue's Sprint history, on its own
AnalyzeChangelog(k) ==
  /\ Idle
  /\ call' = [NoCall EXCEPT !.op = "analyzeSprintChangelog"]
  /\ response' = [success |-> TRUE, key |-> k,
                  analysis |-> analyzeSprintChangelog(changelogs[k])]
  /\ UNCHANGED <<jira, members, changelogs, worklogs, sprint, today, storage,
                 config, requests, lookups, paging>>

\* SpecChangelog: one issue whose Sprint history is any list of up to
\* MaxHist + 1 entries, each at an instant of its own and of any kind
\* (into the sprint, out of it, a change among other sprints), in any
\* order
HistoryInstants == 1..(MaxHist + 2)

SprintHistories ==
  UNION { { h \in [1..n -> [created : HistoryInstants, from : BOOLEAN, to : BOOLEAN]] :
              \A i, j \in 1..n : i # j => h[i].created # h[j].created } :
          n \in 0..(MaxHist + 1) }

InitChangelog ==
  /\ InitIssues(1, PlainShapes(1), AlternateAssignments(1), {AllToDo(1)},
                ShortSprint, {{1}})
  /\ storage = NoBaseline
  /\ worklogs = <<>>
  /\ changelogs \in [{1} -> SprintHistories]

NextChangelog ==
  \/ \E k \in Keys : AnalyzeChangelog(k)
  \/ Return

SpecChangelog == InitChangelog /\ [][NextChangelog]_vars

\* SpecRemoval: the sprint of SpecSeries with every issue in its baseline,
\* while days pass and issues leave the sprint and come back, the changelog
\* requests failing now and then
InitRemoval ==
  InitOpened(MaxSeriesIssues, PlainShapes(MaxSeriesIssues),
           AlternateAssignments(MaxSeriesIssues), {AllToDo(MaxSeriesIssues)},
           ShortSprint, {1..MaxSeriesIssues})

NextRemoval ==
  \/ CallBurndown({"All"}, {0}, {{}, {"changelog"}})
  \/ Return
  \/ Tick
  \/ \E k \in Keys : HistoryBudget /\ AddToSprint(k, FALSE)
  \/ \E k \in Keys : HistoryBudget /\ RemoveFromSprint(k)

SpecRemoval == InitRemoval /\ [][NextRemoval]_vars

\* SpecIdeal: the gadget opened on sprints of every start weekday and length
InitIdeal ==
  InitWith(MaxSeriesIssues, PlainShapes(MaxSeriesIssues),
           AlternateAssignments(MaxSeriesIssues), {AllToDo(MaxSeriesIssues)},
           Sprints, {1..MaxSeriesIssues})

NextIdeal == CallBurndown({"All", "An"}, TeamSizes, {{}}) \/ Return

SpecIdeal == InitIdeal /\ [][NextIdeal]_vars

(***************************************************************************)
(* Properties                                                              *)
(***************************************************************************)
\* the status names of the model that are Done-like
DoneLike == {StDone, StResolved}

ActiveMembers == {k \in members : jira[k].status \notin DoneLike}

EntriesFor(baseline, assignee) ==
  {n \in DOMAIN baseline.issues :
     assignee = "All" \/ baseline.issues[n].assignee = assignee}

BurndownSucceeded == call.op = "getBurndownData" /\ response.success

\* C3 (as claimed): a getBurndownData call never changes a stored baseline
\* unless the corruption condition (entry count below 30% of the current
\* non-Done issue count and below 10) holds during that call.
C3_StoredBaselineNeverChanged ==
  [][ ( /\ call'.op = "getBurndownData"
        /\ storage # NoBaseline
        /\ ~ ( /\ Len(storage.issues) * 10 < Cardinality(ActiveMembers) * 3
               /\ Len(storage.issues) < 10 ) )
      => storage' = storage ]_vars

\* C4: a successful getBurndownData call on a sprint without a stored
\* baseline leaves a stored baseline whose keys are exactly the keys of the
\* sprint issues that are not Done-like, and the response is computed from
\* that baseline (its entry count and original-estimate total).
C4_BaselineCreatedFromActiveIssues ==
  (BurndownSucceeded /\ call.before = NoBaseline) =>
    /\ storage # NoBaseline
    /\ KeysOf(storage.issues) = ActiveMembers
    /\ Len(storage.issues) = Cardinality(ActiveMembers)
    /\ LET mine == EntriesFor(storage, call.assignee)
           total == SumOver([n \in mine |-> storage.issues[n].originalEstimate], mine)
       IN /\ response.baselineIssueCount = Cardinality(mine)
          /\ total # 0 => response.totalOriginalEstimate = total

C4_Witness ==
  /\ BurndownSucceeded
  /\ call.before = NoBaseline
  /\ ActiveMembers # {}
  /\ members \ ActiveMembers # {}
  /\ call.assignee # "All"
  /\ response.baselineIssueCount > 0

\* the decision over counts beyond the sprints explored: up to 12 entries
\* against up to 45 non-Done issues
CorruptionTable ==
  \A l \in 0..12, n \in 0..45 :
    isCorrupted(l, n) <=> (l * 10 < n * 3 /\ l < 10)

C6_ResetStoresSnapshot ==
  (call.op = "resetBaseline" /\ response.success) =>
    /\ storage # NoBaseline
    /\ KeysOf(storage.issues) = members

\* the working set of the last call: the sprint issues after its filter
WorkingSet ==
  {k \in members : call.assignee = "All" \/ jira[k].assignee = call.assignee}

IsSubtask(k) == jira[k].issuetype = TypeSubtask

\* the subtasks of p that are in the working set
PresentSubtasks(p) == {k \in WorkingSet : IsSubtask(k) /\ jira[k].parent = p}

\* p has subtasks according to the tracker, in the working set or not
HasSubtasks(p) ==
  \/ jira[p].issuetype = TypeMainTask
  \/ jira[p].extraSubtasks > 0
  \/ \E k \in Keys : jira[k].parent = p

Hours(k, field) == secondsToHours(jira[k][field])

DetailOf(k) ==
  response.issueDetails[CHOOSE n \in DOMAIN response.issueDetails :
                          response.issueDetails[n].key = k]

\* parents of the working set with a subtask in it; issues that neither are
\* subtasks nor have subtasks
ParentsWithPresent == {p \in WorkingSet : ~IsSubtask(p) /\ PresentSubtasks(p) # {}}

PlainIssues == {k \in WorkingSet : ~IsSubtask(k) /\ ~HasSubtasks(k)}

ExpectedTotal(field) ==
  SumOver([k \in Keys |-> Hours(k, field)], PlainIssues)
  + SumOver([p \in Keys |->
               SumOver([k \in Keys |-> Hours(k, field)], PresentSubtasks(p))],
            ParentsWithPresent)

\* the original-estimate total came from the effective sum, not the baseline
UsedFallback ==
  LET mine == EntriesFor(storage, call.assignee)
  IN SumOver([n \in mine |-> storage.issues[n].originalEstimate], mine) = 0

\* C1: a parent with at least one subtask in the working set stands for
\* exactly the sum of the present subtasks' remaining, original and spent
\* values (never its own field), and the totals count every plain issue
\* once, every such parent's present subtasks once, and nothing else.
C1_ParentCountsPresentSubtasks ==
  BurndownSucceeded =>
    /\ \A p \in ParentsWithPresent :
         /\ DetailOf(p).remainingEstimate =
              SumOver([k \in Keys |-> Hours(k, "timeestimate")], PresentSubtasks(p))
         /\ DetailOf(p).originalEstimate =
              SumOver([k \in Keys |-> Hours(k, "timeoriginalestimate")], PresentSubtasks(p))
         /\ DetailOf(p).timeSpent =
              SumOver([k \in Keys |-> Hours(k, "timespent")], PresentSubtasks(p))
    /\ response.currentRemaining = ExpectedTotal("timeestimate")
    /\ response.totalSpent = ExpectedTotal("timespent")
    /\ UsedFallback =>
         response.totalOriginalEstimate = ExpectedTotal("timeoriginalestimate")

\* a parent (6h of its own) with two subtasks of 3h each; the filter keeps
\* the parent and one subtask: 3h
C1_Witness ==
  /\ BurndownSucceeded
  /\ call.assignee = "An"
  /\ Cardinality(Keys) >= 3
  /\ jira[2].parent = 1 /\ jira[3].parent = 1
  /\ WorkingSet = {1, 2}
  /\ Hours(1, "timeestimate") = 60
  /\ Hours(2, "timeestimate") = 30 /\ Hours(3, "timeestimate") = 30
  /\ response.currentRemaining = 30
  /\ UsedFallback

\* C2: a parent that has subtasks of which none is in the working set is
\* flagged skippedInTotal and no other issue is; the totals are the sums of
\* the listed values of the issues that are neither skipped nor subtasks.
C2_SkippedParents ==
  BurndownSucceeded =>
    LET counted == {n \in DOMAIN response.issueDetails :
                      /\ ~response.issueDetails[n].skippedInTotal
                      /\ ~response.issueDetails[n].isSubtask}
        sumOf(field) == SumOver([n \in counted |-> response.issueDetails[n][field]], counted)
    IN /\ KeysOf(response.issueDetails) = WorkingSet
       /\ \A k \in WorkingSet :
            DetailOf(k).skippedInTotal <=>
              (~IsSubtask(k) /\ HasSubtasks(k) /\ PresentSubtasks(k) = {})
       /\ response.currentRemaining = sumOf("remainingEstimate")
       /\ response.totalSpent = sumOf("timeSpent")
       /\ UsedFallback => response.totalOriginalEstimate = sumOf("originalEstimate")

C2_Witness ==
  /\ BurndownSucceeded
  /\ UsedFallback
  /\ \E p \in WorkingSet :
       /\ DetailOf(p).skippedInTotal
       /\ \E k \in Keys \ WorkingSet : jira[k].parent = p
       /\ Hours(p, "timeestimate") > 0
  /\ \E p \in WorkingSet :
       /\ DetailOf(p).skippedInTotal
       /\ jira[p].issuetype = TypeMainTask
       /\ \A k \in Keys : jira[k].parent # p

\* the dated points of the series, in order, after the 'start' point
Dated == 2..Len(response.dataPoints)

\* hours logged on day d on the issues of the working set
LoggedOn(d) ==
  IF "worklog" \in call.historyUp
    THEN LET mine == {n \in DOMAIN worklogs :
                        worklogs[n].key \in WorkingSet /\ worklogs[n].started = d}
         IN SumOver([n \in mine |-> secondsToHours(worklogs[n].timeSpentSeconds)], mine)
    ELSE 0

\* C7 (as claimed): the start point's remaining is totalOriginalEstimate and
\* each dated point up to today has remaining = previous point's remaining
\* - hours logged that day + scope added that day - scope removed that day.
C7_RemainingAccumulates ==
  BurndownSucceeded =>
    LET dp == response.dataPoints
    IN /\ dp[1].remaining = response.totalOriginalEstimate
       /\ \A n \in Dated :
            dp[n].date <= today =>
              dp[n].remaining =
                dp[n - 1].remaining - LoggedOn(dp[n].date) + dp[n].added + dp[n].removed

\* C7 (amended): the start point's remaining is totalOriginalEstimate; each
\* dated point up to today has totalRemaining = previous totalRemaining
\* (totalOriginalEstimate before the first day) - hours logged that day
\* + scope added that day - scope removed that day, and its remaining is
\* that totalRemaining less the scope added that day.
C7_TotalRemainingAccumulates ==
  BurndownSucceeded =>
    LET dp == response.dataPoints
        before(n) == IF n = 2 THEN response.totalOriginalEstimate
                     ELSE dp[n - 1].totalRemaining
    IN /\ dp[1].remaining = response.totalOriginalEstimate
       /\ \A n \in Dated :
            dp[n].date <= today =>
              /\ dp[n].totalRemaining =
                   before(n) - LoggedOn(dp[n].date) + dp[n].added + dp[n].removed
              /\ dp[n].remaining = dp[n].totalRemaining - dp[n].added

\* work logged, an issue added and an issue removed after the first day
C7_Witness ==
  /\ BurndownSucceeded
  /\ \E n \in Dated :
       /\ n > 2
       /\ response.dataPoints[n].date <= today
       /\ response.dataPoints[n].added > 0
       /\ LoggedOn(response.dataPoints[n].date) > 0
  /\ \E n \in Dated :
       /\ response.dataPoints[n].date <= today
       /\ response.dataPoints[n].removed < 0

\* C8: a dated point after today has null remaining and null cumulative
\* logged; a dated point on or before today has both non-null.
C8_FutureIsNull ==
  BurndownSucceeded =>
    \A n \in Dated :
      LET p == response.dataPoints[n]
      IN IF p.date > today
           THEN p.remaining = Null /\ p.cumulativeLogged = Null
           ELSE p.remaining # Null /\ p.cumulativeLogged # Null

C8_Witness ==
  /\ BurndownSucceeded
  /\ \E n \in Dated : response.dataPoints[n].date = today
                      /\ response.dataPoints[n].cumulativeLogged > 0
  /\ \E n \in Dated : response.dataPoints[n].date = today + 1
                      /\ response.dataPoints[n].remaining = Null

IsWeekend(d) == d % 7 = 0 \/ d % 7 = 6

CalendarDays == sprint.startDate..sprint.endDate

\* the last day of the sprint that is not a Saturday or Sunday
LastWorkingDay ==
  CHOOSE d \in CalendarDays :
    ~IsWeekend(d) /\ \A e \in CalendarDays : e > d => IsWeekend(e)

\* C10 (as claimed): whatever the sprint's dates, the point of the sprint's
\* last working day has ideal 0.
C10_IdealEndsAtZero ==
  (BurndownSucceeded /\ \E d \in CalendarDays : ~IsWeekend(d)) =>
    \A n \in Dated :
      response.dataPoints[n].date = LastWorkingDay =>
        response.dataPoints[n].ideal = 0

\* Monday-to-Friday days among the calendar days of the sprint
WeekdayCount == Cardinality({d \in CalendarDays : ~IsWeekend(d)})

\* C11 (as claimed): workingDays is the number of Monday-to-Friday days from
\* the start date to the end date inclusive, 10 when there is none, and
\* maxCapacity is workingDays * 8 * teamSize.
C11_MaxCapacity ==
  BurndownSucceeded =>
    /\ response.workingDays = (IF WeekdayCount = 0 THEN 10 ELSE WeekdayCount)
    /\ response.maxCapacity = response.workingDays * 8 * response.teamSize * 10

\* the original-estimate total of the stored baseline, under the call's filter
BaselineTotal ==
  LET mine == EntriesFor(storage, call.assignee)
  IN SumOver([n \in mine |-> storage.issues[n].originalEstimate], mine)

\* C12 (as claimed): in every burndown result the effective original-estimate
\* total of the current items is the baseline's original-estimate total plus
\* scopeAddedTotal minus scopeRemovedTotal, within 0.1h.
C12_ScopeConservation ==
  BurndownSucceeded =>
    LET diff == ExpectedTotal("timeoriginalestimate")
                - (BaselineTotal + response.scopeAddedTotal - response.scopeRemovedTotal)
    IN diff \in -1..1

\* C13 (as claimed): a getBurndownData call that follows a successful one at
\* once, with the same payload, the same issues and the same history
\* answers, returns the same dataPoints.
C13_SameDataPoints ==
  [][ ( /\ call.op = "getBurndownData" /\ response.success
        /\ call'.op = "getBurndownData" /\ response'.success
        /\ call'.assignee = call.assignee
        /\ call'.teamSize = call.teamSize
        /\ call'.historyUp = call.historyUp )
      => response'.dataPoints = response.dataPoints ]_vars


\* the last invocation was a getScopeChanges that succeeded
ScopeSucceeded == call.op = "getScopeChanges" /\ response.success

ListedKeys(list) == {list[n].key : n \in DOMAIN list}

BaselineKeys == KeysOf(storage.issues)

\* C14 (as claimed): the added list holds exactly the keys of the current
\* issue set that are not in the stored baseline, the removed list exactly
\* the keys of the stored baseline that are no longer in the sprint, and no
\* key is in both lists.
C14_AddedRemovedFromBaseline ==
  ScopeSucceeded =>
    /\ ListedKeys(response.added) = WorkingSet \ BaselineKeys
    /\ ListedKeys(response.removed) = BaselineKeys \ members
    /\ ListedKeys(response.added) \cap ListedKeys(response.removed) = {}

\* the priority every issue had when the baseline of InitOpened was taken
CapturedPriority(k) == PrMedium

\* C15 (as claimed): priorityChanged holds exactly the keys that are in the
\* stored baseline and in the current issue set and whose priority is no
\* longer the one they had when the baseline was taken.
C15_PriorityChangedFromBaseline ==
  ScopeSucceeded =>
    ListedKeys(response.priorityChanged)
      = {k \in BaselineKeys \cap WorkingSet : jira[k].priority # CapturedPriority(k)}


\* C16 (as claimed): whatever an endpoint answers, for a missing board, no
\* active sprint, a failing issue source or a failing store, is an object
\* tagged with success, a failure carrying its message.
C16_TaggedResult ==
  ~Idle =>
    /\ "success" \in DOMAIN response
    /\ response.success \in BOOLEAN
    /\ ~response.success => "error" \in DOMAIN response


\* the last invocation was a getBurndownData some history request of which
\* failed
HistoryFailed == call.op = "getBurndownData" /\ call.historyUp # HistoryKinds

\* the dated point of day d
PointOf(d) ==
  response.dataPoints[CHOOSE i \in Dated : response.dataPoints[i].date = d]

\* hours of the working set's issues created on day d
CreatedOn(d) ==
  LET mine == {k \in WorkingSet : jira[k].created = d}
  IN SumOver([k \in Keys |-> Hours(k, "timeoriginalestimate")], mine)

\* C17 (as claimed): when a changelog, worklog or removed-issues request
\* fails, getBurndownData still succeeds with one data point for every day
\* of the sprint, and with the changelogs missing the scope added on a day
\* after the first is the estimate of the issues created that day.
C17_DegradedSeries ==
  HistoryFailed =>
    /\ response.success
    /\ {response.dataPoints[i].date : i \in Dated} = CalendarDays
    /\ "changelog" \notin call.historyUp =>
         \A d \in CalendarDays \ {sprint.startDate} : PointOf(d).added = CreatedOn(d)


\* the last invocation was a getSprintHealth that succeeded
HealthSucceeded == call.op = "getSprintHealth" /\ response.success

\* the bucket of issue k by the rule of the classification, in tenths of
\* an hour: no original estimate is NORMAL
ExpectedHealth(k) ==
  LET original == Hours(k, "timeoriginalestimate")
      actualTotal == Hours(k, "timespent") + Hours(k, "timeestimate")
  IN IF original = 0 THEN "normal"
     ELSE IF original < actualTotal THEN "under"
     ELSE IF original > actualTotal THEN "good"
     ELSE "normal"

ExpectedCount(bucket) ==
  Cardinality({k \in WorkingSet : ExpectedHealth(k) = bucket})

\* C18 (as claimed): getSprintHealth counts an item as UNDERESTIMATED when
\* its original estimate is below spent + remaining, GOOD when it is above,
\* NORMAL when they are equal, and NORMAL when it has no original estimate.
C18_HealthBuckets ==
  HealthSucceeded =>
    /\ response.counts.under = ExpectedCount("under")
    /\ response.counts.good = ExpectedCount("good")
    /\ response.counts.normal = ExpectedCount("normal")
    /\ response.counts.total = Cardinality(WorkingSet)


\* the last invocation was a getAtRiskItems that succeeded
RiskSucceeded == call.op = "getAtRiskItems" /\ response.success

\* the status of issue k names none of done, closed, resolved, complete
NotTerminal(k) == jira[k].status \notin DoneLike

TimeBoxExceeded(k) ==
  Hours(k, "timeestimate") = 0 /\ Hours(k, "timeoriginalestimate") > 0

DeadlineExceeded(k) == jira[k].duedate # Null /\ jira[k].duedate <= today

ItemOf(k) ==
  response.items[CHOOSE n \in DOMAIN response.items : response.items[n].key = k]

RaceDone == \A r \in Requests : requests[r].pc = "done"

\* the entries a snapshot of the sprint holds: one per open issue, with its
\* original estimate
IsSnapshotOfSprint(entries) ==
  /\ KeysOf(entries) = ActiveMembers
  /\ Len(entries) = Cardinality(ActiveMembers)
  /\ \A n \in DOMAIN entries :
       entries[n].originalEstimate = Hours(entries[n].key, "timeoriginalestimate")

\* C20 (as claimed): when concurrent getBurndownData invocations on a sprint
\* with no usable baseline have all answered, whatever the order of their
\* storage reads and writes, the store holds one baseline whose entries are
\* the snapshot every one of them computes, and every invocation answered
\* from those same entries.
C20_RaceLeavesOneBaseline ==
  RaceDone =>
    /\ storage # NoBaseline
    /\ IsSnapshotOfSprint(storage.issues)
    /\ \A r \in Requests :
         /\ requests[r].response.success
         /\ requests[r].baseline # NoBaseline
         /\ requests[r].baseline.issues = storage.issues
         /\ requests[r].response.baselineIssueCount
              = Cardinality({n \in DOMAIN storage.issues :
                               \/ requests[r].assignee = "All"
                               \/ storage.issues[n].assignee = requests[r].assignee})

\* both invocations found no baseline and both wrote one, on different
\* days, with different filters; the later write is the one stored
C20_Witness ==
  /\ RaceDone
  /\ \A r \in Requests : requests[r].read = NoBaseline /\ requests[r].setCalled
  /\ requests["r1"].assignee # requests["r2"].assignee
  /\ requests["r1"].baseline.createdAt < requests["r2"].baseline.createdAt
  /\ storage = requests["r2"].baseline
  /\ storage.issues # <<>>

\* the entries of the stored baseline the last call kept after its filter
\* that are tasks, not subtasks
TaskEntries == {n \in EntriesFor(storage, call.assignee) : ~storage.issues[n].isSubtask}

\* C21 (as claimed): totalOriginalEstimate is the sum of the original
\* estimates of the baseline's task entries, a subtask entry adding nothing
\* on top of its parent, and the sum over the current items is taken only
\* when the baseline has no entry.
C21_TotalFromBaselineTasks ==
  BurndownSucceeded =>
    response.totalOriginalEstimate =
      IF EntriesFor(storage, call.assignee) = {}
        THEN ExpectedTotal("timeoriginalestimate")
        ELSE SumOver([n \in DOMAIN storage.issues |-> storage.issues[n].originalEstimate],
                     TaskEntries)

\* the items of the working set that the stored baseline does not hold
NewItems == WorkingSet \ BaselineKeys

\* when an issue of the sprint entered it according to its Sprint history,
\* Null when the history has no entry
EnteredOn(k) ==
  IF changelogs[k] = <<>> THEN Null
  ELSE changelogs[k][Len(changelogs[k])].created

\* the changed-on date of a new item, Null when it is unattributed
ChangedOn(k) ==
  IF EnteredOn(k) # Null THEN EnteredOn(k)
  ELSE IF jira[k].created > sprint.startDate THEN jira[k].created
  ELSE Null

\* C22 (as claimed): an item of the sprint that the baseline does not hold
\* is dated by its entry into the sprint when the changelog has one, by its
\* creation when that is after the sprint start, and is unattributed
\* otherwise; scopeAddedTotal counts every such item, each day's added value
\* the items dated that day.
C22_AddedAttribution ==
  (BurndownSucceeded /\ call.historyUp = HistoryKinds) =>
    /\ \A k \in NewItems :
         ChangedOn(k) # Null =>
           \E n \in DOMAIN response.addedIssues :
             /\ response.addedIssues[n].key = k
             /\ response.addedIssues[n].addedDate = ChangedOn(k)
    /\ response.scopeAddedTotal
         = SumOver([k \in Keys |-> Hours(k, "timeoriginalestimate")], NewItems)
    /\ \A i \in Dated :
         response.dataPoints[i].added
           = SumOver([k \in Keys |-> Hours(k, "timeoriginalestimate")],
                     {k \in NewItems : ChangedOn(k) = response.dataPoints[i].date})

\* the issues that were in the sprint and have left it
RemovedItems ==
  {k \in Keys \ members : \E i \in DOMAIN changelogs[k] : changelogs[k][i].from}

\* when a removed issue left the sprint according to its Sprint history
LeftOn(k) == changelogs[k][Len(changelogs[k])].created

\* the date of computation, the sprint's end date once that has passed
ClampedToday == IF today > sprint.endDate THEN sprint.endDate ELSE today

\* C23 (as claimed): every removed item is dated by the day it left the
\* sprint when its changelog is available, and otherwise by today, or by
\* the sprint's end date when today is after it.
C23_RemovalDate ==
  (BurndownSucceeded /\ "removed" \in call.historyUp) =>
    /\ ListedKeys(response.removedIssueDetails) = RemovedItems
    /\ \A n \in DOMAIN response.removedIssueDetails :
         response.removedIssueDetails[n].removedDate
           = IF "changelog" \in call.historyUp
               THEN LeftOn(response.removedIssueDetails[n].key)
               ELSE ClampedToday

\* the changelogs are missing, the sprint is over and an issue that left it
\* on an earlier day is dated by the sprint's end date
C23_Witness ==
  /\ BurndownSucceeded
  /\ "changelog" \notin call.historyUp
  /\ today > sprint.endDate
  /\ \E n \in DOMAIN response.removedIssueDetails :
       /\ response.removedIssueDetails[n].removedDate = sprint.endDate
       /\ LeftOn(response.removedIssueDetails[n].key) < sprint.endDate

\* hours of the events of a list that are attributed to day d
EventHours(events, field, d) ==
  LET on == {n \in DOMAIN events : events[n][field] = d}
  IN SumOver([n \in DOMAIN events |-> events[n].originalEstimate], on)

\* C24 (as claimed): each data point's added is the sum of the added events
\* of its date and its removed the negated sum of the removed events of its
\* date, and no event is dropped: the added values of all points sum to the
\* hours of the added events (scopeAddedTotal), the removed magnitudes to
\* scopeRemovedTotal.
C24_ScopeBars ==
  BurndownSucceeded =>
    /\ \A i \in Dated :
         /\ response.dataPoints[i].added
              = EventHours(response.addedIssues, "addedDate",
                           response.dataPoints[i].date)
         /\ response.dataPoints[i].removed
              = 0 - EventHours(response.removedIssueDetails, "removedDate",
                               response.dataPoints[i].date)
    /\ SumOver([i \in Dated |-> response.dataPoints[i].added], Dated)
         = response.scopeAddedTotal
    /\ SumOver([i \in Dated |-> 0 - response.dataPoints[i].removed], Dated)
         = response.scopeRemovedTotal

\* C25: the per-issue changelog and worklog lookups of one invocation run
\* in slices of at most 5 concurrent calls: never more than 5 requests are
\* in flight, the series is built only after every lookup of every slice
\* has returned, and what was collected is a function of the answers alone,
\* not of the order in which the calls of a slice completed
LookupsRunning == lookups # NoLookups

Answered(kind, k) == \E ok \in BOOLEAN : <<kind, k, ok>> \in lookups.answers

RECURSIVE WorklogsInOrder(_)
WorklogsInOrder(issues) ==
  IF issues = <<>> THEN <<>>
  ELSE historyAnswer("worklog", Head(issues), <<2, Head(issues), TRUE>> \in lookups.answers)
       \o WorklogsInOrder(Tail(issues))

C25_BatchedLookups ==
  LookupsRunning =>
    /\ Cardinality(lookups.inFlight) <= 5
    /\ lookups.pc \in {"done", "built"} =>
         /\ lookups.inFlight = {}
         /\ \A kind \in DOMAIN LookupKinds, k \in Keys : Answered(kind, k)
         /\ DOMAIN lookups.results = Keys
         /\ \A k \in Keys :
              lookups.results[k] =
                historyAnswer("changelog", k, <<1, k, TRUE>> \in lookups.answers)
         /\ lookups.allWorklogs = WorklogsInOrder(lookups.issues)

C25_Witness ==
  /\ LookupsRunning
  /\ lookups.pc = "built"
  /\ Len(lookups.issues) > 5
  /\ \E k \in Keys : <<1, k, FALSE>> \in lookups.answers
  /\ \E k \in Keys : <<2, k, FALSE>> \in lookups.answers
  /\ \E k \in Keys : lookups.results[k] # <<>>
  /\ Len(lookups.allWorklogs) > 2

\* C26: every pagination loop over the tracker finishes after finitely
\* many requests whatever the tracker answers: getSprintIssues,
\* getIssueChangelog or getIssueWorklogs, once entered, returns or throws
PagingOver == paging = NoPaging \/ paging.pc \in {"returned", "thrown"}

C26_PagingTerminates ==
  (paging # NoPaging /\ paging.loop # "snapshot.getSprintIssues") ~> PagingOver

\* C27: when a page of the sprint issues fails after earlier pages were
\* collected, the issues collected so far are returned to the caller
C27_CollectedPagesReturned ==
  (/\ paging # NoPaging
   /\ paging.loop \in IssueLoops
   /\ paging.failed
   /\ paging.collected # <<>>)
  => (paging.pc = "returned" /\ paging.result = paging.collected)

\* C28: a subtask of the working set whose parent is not in the working set
\* adds nothing to the remaining, original-estimate and spent totals: the
\* totals are the sums over the plain issues and over the subtasks whose
\* parent is in the working set
OrphanSubtasks == {k \in WorkingSet : IsSubtask(k) /\ jira[k].parent \notin WorkingSet}

CountedKeys ==
  {k \in WorkingSet \ OrphanSubtasks : IsSubtask(k) \/ ~HasSubtasks(k)}

CountedTotal(field) == SumOver([k \in Keys |-> Hours(k, field)], CountedKeys)

Analysed == call.op = "analyzeSprintChangelog" /\ response.success

EntriesInto(k) ==
  {changelogs[k][i].created : i \in
     {j \in DOMAIN changelogs[k] : ~changelogs[k][j].from /\ changelogs[k][j].to}}

RemovalsFrom(k) ==
  {changelogs[k][i].created : i \in
     {j \in DOMAIN changelogs[k] : changelogs[k][j].from /\ ~changelogs[k][j].to}}

Latest(instants) == CHOOSE t \in instants : \A u \in instants : u <= t

C29_ChronologicalAnalysis ==
  Analysed =>
    LET into == EntriesInto(response.key)
        out == RemovalsFrom(response.key)
    IN /\ response.analysis.removedDate = IF out = {} THEN Null ELSE Latest(out)
       /\ response.analysis.addedDate =
            IF into # {} /\ \A r \in out : r < Latest(into)
              THEN Latest(into) ELSE Null

\* removed at instant 1, back at instant 3, given with the later entry first
C29_Witness ==
  /\ Analysed
  /\ Len(changelogs[1]) >= 2
  /\ changelogs[1][1] = [created |-> 3, from |-> FALSE, to |-> TRUE]
  /\ changelogs[1][2] = [created |-> 1, from |-> TRUE, to |-> FALSE]
  /\ response.analysis = [addedDate |-> 3, removedDate |-> 1]

\* C30 (as claimed): the getBurndownData call that follows at once a call
\* which deleted and recreated a corrupted baseline, with the same issues,
\* deletes nothing and writes nothing: the stored baseline stays as it is.
C30_RepairConverges ==
  [][ ( /\ call.op = "getBurndownData" /\ response.success
        /\ call.corrupted /\ call.deleteCalled /\ call.setCalled
        /\ call'.op = "getBurndownData" )
      => ( /\ ~call'.deleteCalled
           /\ ~call'.setCalled
           /\ storage' = storage ) ]_vars

============================================================================
